---- MODULE Spec2Model ----
(***************************************************************************)
(* Model of bits, a file-based task tracker (github.com/abatilo/bits).     *)
(*                                                                         *)
(* The store is a directory with one markdown file per task.  Every CLI    *)
(* command is one process that runs to completion (printError exits the    *)
(* process at the first error), so every command is one action.            *)
(*                                                                         *)
(* Not modelled: Task.Description (no command reads it) and the rendering  *)
(* of the output text.                                                     *)
(***************************************************************************)
EXTENDS Integers, Sequences, FiniteSets, TLC

(***************************************************************************)
(* Bounds of the model.                                                    *)
(***************************************************************************)
\* number of identifiers GenerateID can produce
NumIDs == 3
\* the clock runs from tick 0 to tick MaxTime
MaxTime == 1
\* clock ticks per second: RFC3339 timestamps keep whole seconds only
TicksPerSec == 2

IDSeq == <<"a", "b", "c", "d", "e">>
IDs == {IDSeq[i] : i \in 1..NumIDs}
\* (os.ReadDir returns the entries sorted by file name: the order of IDSeq)

\* The inputs of bits add the model tries: <<title, --priority, the identifier
\* GenerateID returns for it>>.  "urgent" is not a priority.
AddInputs ==
    {<<"T1", "medium", "a">>, <<"T2", "high", "b">>, <<"T1", "medium", "c">>,
     <<"T2", "low", "d">>, <<"T1", "high", "e">>, <<"T1", "urgent", "a">>}
\* values of the <reason> argument the model tries
Reasons == {"", "done"}

VARIABLES
    tasks,    \* the task files: a function from the ids on disk to their task
    now,      \* the wall clock, in ticks
    last,     \* what the last command was and how it ended
    prev,     \* the task files as the last command found them
    session,  \* the file session.json: Nil when there is none
    prevSession,  \* session.json as the last call found it
    running   \* the commands that have started and not yet ended

vars == <<tasks, now, last, prev, session, prevSession, running>>

(***************************************************************************)
(* internal/task: statuses, priorities                                     *)
(***************************************************************************)
StatusOpen == "open"
StatusActive == "active"
StatusClosed == "closed"

PriorityCritical == "critical"
PriorityHigh == "high"
PriorityMedium == "medium"
PriorityLow == "low"

PriorityOrder(p) ==
    CASE p = PriorityCritical -> 0
      [] p = PriorityHigh -> 1
      [] p = PriorityMedium -> 2
      [] p = PriorityLow -> 3
      [] OTHER -> 4

IsValidPriority(p) ==
    p \in {PriorityCritical, PriorityHigh, PriorityMedium, PriorityLow}

\* A nil pointer is the empty sequence, a set pointer a one-element sequence.
Nil == <<>>
Ptr(v) == <<v>>

(***************************************************************************)
(* internal/storage: markdown files                                        *)
(***************************************************************************)
\* t.Format(time.RFC3339): the timestamp in whole seconds
FormatRFC3339(t) == t \div TicksPerSec
\* parseTime of an RFC3339 string: the tick at which that second starts
parseTime(s) == s * TicksPerSec

\* The frontmatter written for a task: timestamps become RFC3339 strings,
\* an empty depends_on is omitted.
SerializeMarkdown(t) ==
    [id |-> t.id, title |-> t.title, status |-> t.status,
     priority |-> t.priority,
     created_at |-> FormatRFC3339(t.created_at),
     closed_at |-> IF t.closed_at = Nil THEN Nil
                   ELSE Ptr(FormatRFC3339(t.closed_at[1])),
     close_reason |-> t.close_reason,
     depends_on |-> t.depends_on]

ParseMarkdown(fm) ==
    [id |-> fm.id, title |-> fm.title, status |-> fm.status,
     priority |-> fm.priority,
     created_at |-> parseTime(fm.created_at),
     closed_at |-> IF fm.closed_at = Nil THEN Nil
                   ELSE Ptr(parseTime(fm.closed_at[1])),
     close_reason |-> fm.close_reason,
     depends_on |-> fm.depends_on]

\* Store.Exists
Exists(store, id) == id \in DOMAIN store

\* Store.Save: (over)writes the file of t.ID
Save(store, t) ==
    [x \in DOMAIN store \cup {t.id} |->
        IF x = t.id THEN SerializeMarkdown(t) ELSE store[x]]

\* Store.Load of an existing file
Load(store, id) == ParseMarkdown(store[id])

\* Store.Delete of an existing file
Delete(store, id) == [x \in DOMAIN store \ {id} |-> store[x]]

\* StatusFilter.Matches
NoFilter == [Open |-> FALSE, Active |-> FALSE, Closed |-> FALSE]
Matches(f, status) ==
    IF ~f.Open /\ ~f.Active /\ ~f.Closed THEN TRUE
    ELSE CASE status = StatusOpen -> f.Open
           [] status = StatusActive -> f.Active
           [] status = StatusClosed -> f.Closed
           [] OTHER -> FALSE

\* the comparison of Store.List's sort.Slice
listLess(a, b) ==
    IF PriorityOrder(a.priority) # PriorityOrder(b.priority)
    THEN PriorityOrder(a.priority) < PriorityOrder(b.priority)
    ELSE a.created_at < b.created_at

\* sort.Slice on at most 12 elements is an insertion sort: an element moves
\* left while it is less than its left neighbour.
RECURSIVE InsertTask(_, _)
InsertTask(s, t) ==
    IF s = <<>> THEN <<t>>
    ELSE IF listLess(t, s[Len(s)])
         THEN Append(InsertTask(SubSeq(s, 1, Len(s) - 1), t), s[Len(s)])
         ELSE Append(s, t)

\* the files of the directory in os.ReadDir order, those of index > k dropped
RECURSIVE ReadDir(_, _)
ReadDir(store, k) ==
    IF k = 0 THEN <<>>
    ELSE IF IDSeq[k] \in DOMAIN store
         THEN Append(ReadDir(store, k - 1), IDSeq[k])
         ELSE ReadDir(store, k - 1)

RECURSIVE ListFrom(_, _, _)
ListFrom(store, filter, entries) ==
    IF entries = <<>> THEN <<>>
    ELSE LET n == Len(entries)
             t == Load(store, entries[n])
             rest == ListFrom(store, filter, SubSeq(entries, 1, n - 1))
         IN  IF Matches(filter, t.status) THEN InsertTask(rest, t) ELSE rest

\* Store.List
List(store, filter) == ListFrom(store, filter, ReadDir(store, Len(IDSeq)))

(***************************************************************************)
(* internal/task: FindActive and GenerateID                                *)
(***************************************************************************)
\* task.FindActive: the first active task of the slice, Nil when there is none
RECURSIVE FindActive(_)
FindActive(list) ==
    IF list = <<>> THEN Nil
    ELSE IF Head(list).status = StatusActive THEN Ptr(Head(list))
         ELSE FindActive(Tail(list))

\* task.GenerateID: a prefix of a hash of title, time and a random nonce that
\* existsFn does not know; any identifier not in use can come out.
GenerateID(existing) == IDs \ existing

(***************************************************************************)
(* internal/deps: the dependency graph                                     *)
(***************************************************************************)
\* slices.Contains
Contains(s, x) == \E i \in 1..Len(s) : s[i] = x

\* NewGraph: the map from id to task; a later task of the slice replaces an
\* earlier one with the same id
NewGraph(list) ==
    [id \in {list[i].id : i \in 1..Len(list)} |->
        list[CHOOSE i \in 1..Len(list) :
                /\ list[i].id = id
                /\ \A j \in (i + 1)..Len(list) : list[j].id # id]]

\* IsBlocked taking a dependency without a task for a blocker
IsBlocked_MissingBlocks(g, id) ==
    IF id \notin DOMAIN g THEN FALSE
    ELSE \E i \in 1..Len(g[id].depends_on) :
            \/ g[id].depends_on[i] \notin DOMAIN g
            \/ g[g[id].depends_on[i]].status # StatusClosed

\* Graph.IsBlocked
IsBlocked(g, id) ==
    IF id \notin DOMAIN g THEN FALSE
    ELSE \E i \in 1..Len(g[id].depends_on) :
            /\ g[id].depends_on[i] \in DOMAIN g
            /\ g[g[id].depends_on[i]].status # StatusClosed

\* the loop of Graph.BlockedBy over a list of dependency ids
RECURSIVE blockersOf(_, _)
blockersOf(g, ds) ==
    IF ds = <<>> THEN <<>>
    ELSE IF Head(ds) \in DOMAIN g /\ g[Head(ds)].status # StatusClosed
         THEN <<Head(ds)>> \o blockersOf(g, Tail(ds))
         ELSE blockersOf(g, Tail(ds))

\* BlockedBy returning every dependency
BlockedBy_All(g, id) ==
    IF id \notin DOMAIN g THEN <<>> ELSE g[id].depends_on

\* Graph.BlockedBy
BlockedBy(g, id) ==
    IF id \notin DOMAIN g THEN <<>> ELSE blockersOf(g, g[id].depends_on)

\* the loop of Graph.WouldCreateCycle: a breadth-first search over a queue
RECURSIVE bfs(_, _, _, _)
bfs(g, from, queue, visited) ==
    IF queue = <<>> THEN FALSE
    ELSE LET current == Head(queue)
             rest == Tail(queue)
         IN  IF current = from THEN TRUE
             ELSE IF current \in visited THEN bfs(g, from, rest, visited)
             ELSE IF current \notin DOMAIN g
                  THEN bfs(g, from, rest, visited \cup {current})
                  ELSE bfs(g, from, rest \o g[current].depends_on,
                           visited \cup {current})

\* WouldCreateCycle looking at the direct reversal only
WouldCreateCycle_DirectOnly(g, from, to) ==
    from = to \/ (to \in DOMAIN g /\ Contains(g[to].depends_on, from))

\* WouldCreateCycle searching from 'from' for 'to'
WouldCreateCycle_Forward(g, from, to) == bfs(g, to, <<from>>, {})

\* Graph.WouldCreateCycle
WouldCreateCycle(g, from, to) == bfs(g, from, <<to>>, {})

(***************************************************************************)
(* errors                                                                  *)
(***************************************************************************)
NoErr == [kind |-> "none"]
TaskNotFoundError(id) == [kind |-> "TaskNotFound", id |-> id]
InvalidStatusError(id, current, expected) ==
    [kind |-> "InvalidStatus", id |-> id, current |-> current,
     expected |-> expected]
ActiveTaskExistsError(id, title) ==
    [kind |-> "ActiveTaskExists", id |-> id, title |-> title]
BlockedError(id, blockedBy) ==
    [kind |-> "Blocked", id |-> id, blockedBy |-> blockedBy]
CycleError(from, to) == [kind |-> "CycleDetected", from |-> from, to |-> to]
MissingReasonError == [kind |-> "MissingReason"]
InvalidPriorityError(value) == [kind |-> "InvalidPriority", value |-> value]

\* ValidateAddDep looking for a cycle before it looks for the two tasks
ValidateAddDep_CycleFirst(g, from, to) ==
    IF WouldCreateCycle(g, from, to) THEN CycleError(from, to)
    ELSE IF from \notin DOMAIN g THEN TaskNotFoundError(from)
    ELSE IF to \notin DOMAIN g THEN TaskNotFoundError(to)
    ELSE NoErr

\* ValidateAddDep looking for the two tasks only
ValidateAddDep_NoCycleCheck(g, from, to) ==
    IF from \notin DOMAIN g THEN TaskNotFoundError(from)
    ELSE IF to \notin DOMAIN g THEN TaskNotFoundError(to)
    ELSE NoErr

\* Graph.ValidateAddDep
ValidateAddDep(g, from, to) ==
    IF from \notin DOMAIN g THEN TaskNotFoundError(from)
    ELSE IF to \notin DOMAIN g THEN TaskNotFoundError(to)
    ELSE IF WouldCreateCycle(g, from, to) THEN CycleError(from, to)
    ELSE NoErr

\* taskLess: priority first, then creation time
taskLess(a, b) ==
    IF PriorityOrder(a.priority) # PriorityOrder(b.priority)
    THEN PriorityOrder(a.priority) < PriorityOrder(b.priority)
    ELSE a.created_at < b.created_at

\* sort.Slice of Graph.Ready (an insertion sort, as in Store.List): one
\* element moves left while it is less than its left neighbour
RECURSIVE insertReady(_, _)
insertReady(s, t) ==
    IF s = <<>> THEN <<t>>
    ELSE IF taskLess(t, s[Len(s)])
         THEN Append(insertReady(SubSeq(s, 1, Len(s) - 1), t), s[Len(s)])
         ELSE Append(s, t)

RECURSIVE sortReady(_)
sortReady(list) ==
    IF list = <<>> THEN <<>>
    ELSE insertReady(sortReady(SubSeq(list, 1, Len(list) - 1)),
                     list[Len(list)])

\* the loop of Graph.Ready over the map, which Go walks in an order of its
\* choice: order is the sequence of the keys as this walk meets them
RECURSIVE readyLoop(_, _)
readyLoop(g, order) ==
    IF order = <<>> THEN <<>>
    ELSE LET t == g[Head(order)]
         IN  IF t.status # StatusOpen THEN readyLoop(g, Tail(order))
             ELSE IF ~IsBlocked(g, t.id)
                  THEN <<t>> \o readyLoop(g, Tail(order))
                  ELSE readyLoop(g, Tail(order))

\* Ready without the sort
Ready_Unsorted(g, order) == readyLoop(g, order)

\* Graph.Ready, the map walked in the given order
Ready(g, order) == sortReady(readyLoop(g, order))

\* the orders in which a range loop can walk a map with the keys S
MapOrders(S) ==
    {o \in [1..Cardinality(S) -> S] :
        \A i, j \in 1..Cardinality(S) : i # j => o[i] # o[j]}

\* the loop of Graph.Dependents over the map, walked in the given order
RECURSIVE dependentsLoop(_, _, _)
dependentsLoop(g, id, order) ==
    IF order = <<>> THEN <<>>
    ELSE LET t == g[Head(order)]
         IN  IF Contains(t.depends_on, id)
             THEN <<t.id>> \o dependentsLoop(g, id, Tail(order))
             ELSE dependentsLoop(g, id, Tail(order))

\* Graph.Dependents, the map walked in the given order
Dependents(g, id, order) == dependentsLoop(g, id, order)

\* BuildTree, first loop: children[depID], the tasks that name depID in
\* depends_on, once per mention, as the walk of the map meets them
RECURSIVE childrenLoop(_, _, _)
childrenLoop(g, order, depID) ==
    IF order = <<>> THEN <<>>
    ELSE LET t == g[Head(order)]
             mentions == SelectSeq(t.depends_on, LAMBDA d : d = depID)
         IN  [i \in 1..Len(mentions) |-> t]
                 \o childrenLoop(g, Tail(order), depID)

\* BuildTree, second loop: the tasks without dependents, as the walk of
\* the map meets them (only the length of Dependents is used, so the order
\* of its own walk does not matter)
RECURSIVE rootsLoop(_, _, _)
rootsLoop(g, order, rest) ==
    IF rest = <<>> THEN <<>>
    ELSE LET t == g[Head(rest)]
         IN  IF Len(Dependents(g, t.id, order)) = 0
             THEN <<t>> \o rootsLoop(g, order, Tail(rest))
             ELSE rootsLoop(g, order, Tail(rest))

\* sort.Slice of node.Children by taskLess of the tasks (insertion sort)
RECURSIVE insertNode(_, _)
insertNode(s, n) ==
    IF s = <<>> THEN <<n>>
    ELSE IF taskLess(n.Task, s[Len(s)].Task)
         THEN Append(insertNode(SubSeq(s, 1, Len(s) - 1), n), s[Len(s)])
         ELSE Append(s, n)

RECURSIVE sortNodes(_)
sortNodes(list) ==
    IF list = <<>> THEN <<>>
    ELSE insertNode(sortNodes(SubSeq(list, 1, Len(list) - 1)),
                    list[Len(list)])

\* buildNode: the node of t and the visited map after the call (the map is
\* shared by the whole subtree of one root); buildChildren is the loop
\* over children[t.ID]
RECURSIVE buildNode(_, _, _, _)
RECURSIVE buildChildren(_, _, _, _)
buildNode(g, order, t, visited) ==
    IF t.id \in visited
    THEN [node |-> [Task |-> t, Children |-> <<>>], visited |-> visited]
    ELSE LET r == buildChildren(g, order, childrenLoop(g, order, t.id),
                                visited \cup {t.id})
         IN  [node |-> [Task |-> t, Children |-> sortNodes(r.nodes)],
              visited |-> r.visited]

buildChildren(g, order, list, visited) ==
    IF list = <<>> THEN [nodes |-> <<>>, visited |-> visited]
    ELSE LET first == buildNode(g, order, Head(list), visited)
             rest == buildChildren(g, order, Tail(list), first.visited)
         IN  [nodes |-> <<first.node>> \o rest.nodes,
              visited |-> rest.visited]

\* BuildTree taking for roots the tasks that depend on nothing
BuildTree_RootsWithoutDeps(g, childOrder, rootOrder) ==
    LET roots == sortReady(SelectSeq([i \in 1..Len(rootOrder) |->
                                         g[rootOrder[i]]],
                                     LAMBDA t : t.depends_on = <<>>))
    IN  [i \in 1..Len(roots) |->
            buildNode(g, childOrder, roots[i], {}).node]

\* Graph.BuildTree: childOrder is the walk of the map in the first loop,
\* rootOrder the walk in the second; the roots are sorted as Ready sorts
BuildTree(g, childOrder, rootOrder) ==
    LET roots == sortReady(rootsLoop(g, rootOrder, rootOrder))
    IN  [i \in 1..Len(roots) |->
            buildNode(g, childOrder, roots[i], {}).node]

(***************************************************************************)
(* cmd/bits: the commands                                                  *)
(***************************************************************************)
\* what a command leaves behind: its name, its arguments, the error it exited
\* with (NoErr when it succeeded) and the message it printed, if any (for add,
\* the id of the task it printed)
Outcome(op, args, err, msg) ==
    [op |-> op, args |-> args, err |-> err, msg |-> msg]

\* slices.DeleteFunc(s, func(d) { return d == x })
RECURSIVE DeleteFunc(_, _)
DeleteFunc(s, x) ==
    IF s = <<>> THEN <<>>
    ELSE IF Head(s) = x THEN DeleteFunc(Tail(s), x)
         ELSE <<Head(s)>> \o DeleteFunc(Tail(s), x)

\* Store.CreateTask with the id GenerateID returned
CreateTask(store, id, title, priority, createdAt) ==
    Save(store, [id |-> id, title |-> title, status |-> StatusOpen,
                 priority |-> priority, created_at |-> createdAt,
                 closed_at |-> Nil, close_reason |-> Nil,
                 depends_on |-> <<>>])

\* the loop of Store.RemoveDependency over the listed tasks
RECURSIVE stripFrom(_, _, _)
stripFrom(store, list, depID) ==
    IF list = <<>> THEN store
    ELSE LET t == Head(list)
             newDeps == DeleteFunc(t.depends_on, depID)
         IN  IF Len(newDeps) # Len(t.depends_on)
             THEN stripFrom(Save(store, [t EXCEPT !.depends_on = newDeps]),
                            Tail(list), depID)
             ELSE stripFrom(store, Tail(list), depID)

\* Store.RemoveDependency
RemoveDependency(store, depID) == stripFrom(store, List(store, NoFilter), depID)

\* the loop of pruneCmd: delete every listed task
RECURSIVE deleteAll(_, _)
deleteAll(store, list) ==
    IF list = <<>> THEN store
    ELSE deleteAll(Delete(store, Head(list).id), Tail(list))

\* bits add <title> --priority <priority>, where GenerateID returns id
addCmd(title, priority, id) ==
    IF ~IsValidPriority(priority)
    THEN /\ last' = Outcome("add", <<title, priority>>,
                            InvalidPriorityError(priority), "")
         /\ prev' = tasks
         /\ UNCHANGED <<tasks, now, session, prevSession, running>>
    ELSE /\ id \in GenerateID(DOMAIN tasks)
         /\ tasks' = CreateTask(tasks, id, title, priority, now)
         /\ last' = Outcome("add", <<title, priority>>, NoErr, id)
         /\ prev' = tasks
        /\ UNCHANGED <<now, session, prevSession, running>>

\* claimResult without the check of the task's status
claimResult_NoStatusCheck(store, id) ==
    IF ~Exists(store, id) THEN [err |-> TaskNotFoundError(id), store |-> store]
    ELSE LET t == Load(store, id)
             list == List(store, NoFilter)
             active == FindActive(list)
             blockers == BlockedBy(NewGraph(list), t.id)
         IN  IF active # Nil
             THEN [err |-> ActiveTaskExistsError(active[1].id, active[1].title),
                   store |-> store]
             ELSE IF Len(blockers) > 0
             THEN [err |-> BlockedError(t.id, blockers), store |-> store]
             ELSE [err |-> NoErr,
                   store |-> Save(store, [t EXCEPT !.status = StatusActive])]

\* claimResult without the check for an active task
claimResult_NoActiveCheck(store, id) ==
    IF ~Exists(store, id) THEN [err |-> TaskNotFoundError(id), store |-> store]
    ELSE LET t == Load(store, id)
             list == List(store, NoFilter)
             blockers == BlockedBy(NewGraph(list), t.id)
         IN  IF t.status # StatusOpen
             THEN [err |-> InvalidStatusError(t.id, t.status, StatusOpen),
                   store |-> store]
             ELSE IF Len(blockers) > 0
             THEN [err |-> BlockedError(t.id, blockers), store |-> store]
             ELSE [err |-> NoErr,
                   store |-> Save(store, [t EXCEPT !.status = StatusActive])]

\* claimResult with the dependencies checked before the active task
claimResult_BlockedFirst(store, id) ==
    IF ~Exists(store, id) THEN [err |-> TaskNotFoundError(id), store |-> store]
    ELSE LET t == Load(store, id)
             list == List(store, NoFilter)
             active == FindActive(list)
             blockers == BlockedBy(NewGraph(list), t.id)
         IN  IF t.status # StatusOpen
             THEN [err |-> InvalidStatusError(t.id, t.status, StatusOpen),
                   store |-> store]
             ELSE IF Len(blockers) > 0
             THEN [err |-> BlockedError(t.id, blockers), store |-> store]
             ELSE IF active # Nil
             THEN [err |-> ActiveTaskExistsError(active[1].id, active[1].title),
                   store |-> store]
             ELSE [err |-> NoErr,
                   store |-> Save(store, [t EXCEPT !.status = StatusActive])]

\* claimResult reporting the claimed task instead of the active one
claimResult_ReportsTarget(store, id) ==
    IF ~Exists(store, id) THEN [err |-> TaskNotFoundError(id), store |-> store]
    ELSE LET t == Load(store, id)
             list == List(store, NoFilter)
             active == FindActive(list)
             blockers == BlockedBy(NewGraph(list), t.id)
         IN  IF t.status # StatusOpen
             THEN [err |-> InvalidStatusError(t.id, t.status, StatusOpen),
                   store |-> store]
             ELSE IF active # Nil
             THEN [err |-> ActiveTaskExistsError(active[1].id, t.title),
                   store |-> store]
             ELSE IF Len(blockers) > 0
             THEN [err |-> BlockedError(t.id, blockers), store |-> store]
             ELSE [err |-> NoErr,
                   store |-> Save(store, [t EXCEPT !.status = StatusActive])]

\* claimResult without the check of the dependencies
claimResult_NoBlockedCheck(store, id) ==
    IF ~Exists(store, id) THEN [err |-> TaskNotFoundError(id), store |-> store]
    ELSE LET t == Load(store, id)
             list == List(store, NoFilter)
             active == FindActive(list)
         IN  IF t.status # StatusOpen
             THEN [err |-> InvalidStatusError(t.id, t.status, StatusOpen),
                   store |-> store]
             ELSE IF active # Nil
             THEN [err |-> ActiveTaskExistsError(active[1].id, active[1].title),
                   store |-> store]
             ELSE [err |-> NoErr,
                   store |-> Save(store, [t EXCEPT !.status = StatusActive])]

\* the result of bits claim <id> on a store: the error and the store after it
claimResult(store, id) ==
    IF ~Exists(store, id) THEN [err |-> TaskNotFoundError(id), store |-> store]
    ELSE LET t == Load(store, id)
             list == List(store, NoFilter)
             active == FindActive(list)
             blockers == BlockedBy(NewGraph(list), t.id)
         IN  IF t.status # StatusOpen
             THEN [err |-> InvalidStatusError(t.id, t.status, StatusOpen),
                   store |-> store]
             ELSE IF active # Nil
             THEN [err |-> ActiveTaskExistsError(active[1].id, active[1].title),
                   store |-> store]
             ELSE IF Len(blockers) > 0
             THEN [err |-> BlockedError(t.id, blockers), store |-> store]
             ELSE [err |-> NoErr,
                   store |-> Save(store, [t EXCEPT !.status = StatusActive])]

\* bits claim <id>
claimCmd(id) ==
    LET r == claimResult(tasks, id)
    IN  /\ tasks' = r.store
        /\ last' = Outcome("claim", <<id>>, r.err, "")
        /\ prev' = tasks
        /\ UNCHANGED <<now, session, prevSession, running>>

\* releaseResult without the check of the task's status
releaseResult_NoStatusCheck(store, id) ==
    IF ~Exists(store, id) THEN [err |-> TaskNotFoundError(id), store |-> store]
    ELSE LET t == Load(store, id)
         IN  [err |-> NoErr,
              store |-> Save(store, [t EXCEPT !.status = StatusOpen])]

\* the result of bits release <id>
releaseResult(store, id) ==
    IF ~Exists(store, id) THEN [err |-> TaskNotFoundError(id), store |-> store]
    ELSE LET t == Load(store, id)
         IN  IF t.status # StatusActive
             THEN [err |-> InvalidStatusError(t.id, t.status, StatusActive),
                   store |-> store]
             ELSE [err |-> NoErr,
                   store |-> Save(store, [t EXCEPT !.status = StatusOpen])]

\* bits release <id>
releaseCmd(id) ==
    LET r == releaseResult(tasks, id)
    IN  /\ tasks' = r.store
        /\ last' = Outcome("release", <<id>>, r.err, "")
        /\ prev' = tasks
        /\ UNCHANGED <<now, session, prevSession, running>>

\* closeResult that does not stamp closed_at
closeResult_NoClosedAt(store, id, reason, t0) ==
    IF ~Exists(store, id) THEN [err |-> TaskNotFoundError(id), store |-> store]
    ELSE LET t == Load(store, id)
         IN  IF t.status # StatusActive
             THEN [err |-> InvalidStatusError(t.id, t.status, StatusActive),
                   store |-> store]
             ELSE IF reason = ""
             THEN [err |-> MissingReasonError, store |-> store]
             ELSE [err |-> NoErr,
                   store |-> Save(store, [t EXCEPT !.status = StatusClosed,
                                                   !.close_reason = Ptr(reason)])]

\* closeResult with the reason checked before the status
closeResult_ReasonFirst(store, id, reason, t0) ==
    IF ~Exists(store, id) THEN [err |-> TaskNotFoundError(id), store |-> store]
    ELSE LET t == Load(store, id)
         IN  IF reason = ""
             THEN [err |-> MissingReasonError, store |-> store]
             ELSE IF t.status # StatusActive
             THEN [err |-> InvalidStatusError(t.id, t.status, StatusActive),
                   store |-> store]
             ELSE [err |-> NoErr,
                   store |-> Save(store, [t EXCEPT !.status = StatusClosed,
                                                   !.closed_at = Ptr(t0),
                                                   !.close_reason = Ptr(reason)])]

\* closeResult taking the closed task out of the depends_on of the others
closeResult_StripsDependents(store, id, reason, t0) ==
    IF ~Exists(store, id) THEN [err |-> TaskNotFoundError(id), store |-> store]
    ELSE LET t == Load(store, id)
         IN  IF t.status # StatusActive
             THEN [err |-> InvalidStatusError(t.id, t.status, StatusActive),
                   store |-> store]
             ELSE IF reason = ""
             THEN [err |-> MissingReasonError, store |-> store]
             ELSE [err |-> NoErr,
                   store |-> Save(RemoveDependency(store, id),
                                  [t EXCEPT !.status = StatusClosed,
                                            !.closed_at = Ptr(t0),
                                            !.close_reason = Ptr(reason)])]

\* the result of bits close <id> <reason> at time t0
closeResult(store, id, reason, t0) ==
    IF ~Exists(store, id) THEN [err |-> TaskNotFoundError(id), store |-> store]
    ELSE LET t == Load(store, id)
         IN  IF t.status # StatusActive
             THEN [err |-> InvalidStatusError(t.id, t.status, StatusActive),
                   store |-> store]
             ELSE IF reason = ""
             THEN [err |-> MissingReasonError, store |-> store]
             ELSE [err |-> NoErr,
                   store |-> Save(store, [t EXCEPT !.status = StatusClosed,
                                                   !.closed_at = Ptr(t0),
                                                   !.close_reason = Ptr(reason)])]

\* bits close <id> <reason>
closeCmd(id, reason) ==
    LET r == closeResult(tasks, id, reason, now)
    IN  /\ tasks' = r.store
        /\ last' = Outcome("close", <<id, reason>>, r.err, "")
        /\ prev' = tasks
        /\ UNCHANGED <<now, session, prevSession, running>>

\* depResult without the check for an existing edge
depResult_NoContainsCheck(store, taskID, depID) ==
    LET err == ValidateAddDep(NewGraph(List(store, NoFilter)), taskID, depID)
    IN  IF err # NoErr THEN [err |-> err, msg |-> "", store |-> store]
        ELSE LET t == Load(store, taskID)
             IN  [err |-> NoErr, msg |-> "",
                  store |-> Save(store,
                      [t EXCEPT !.depends_on = Append(@, depID)])]

\* the result of bits dep <id> <depends-on-id>
depResult(store, taskID, depID) ==
    LET err == ValidateAddDep(NewGraph(List(store, NoFilter)), taskID, depID)
    IN  IF err # NoErr THEN [err |-> err, msg |-> "", store |-> store]
        ELSE LET t == Load(store, taskID)
             IN  IF Contains(t.depends_on, depID)
                 THEN [err |-> NoErr, msg |-> "Dependency already exists",
                       store |-> store]
                 ELSE [err |-> NoErr, msg |-> "",
                       store |-> Save(store,
                           [t EXCEPT !.depends_on = Append(@, depID)])]

\* bits dep <id> <depends-on-id>
depCmd(taskID, depID) ==
    LET r == depResult(tasks, taskID, depID)
    IN  /\ tasks' = r.store
        /\ last' = Outcome("dep", <<taskID, depID>>, r.err, r.msg)
        /\ prev' = tasks
        /\ UNCHANGED <<now, session, prevSession, running>>

\* undep refusing to touch a task that is not open
undepResult_OpenOnly(store, id, depID) ==
    IF ~Exists(store, id)
    THEN [err |-> TaskNotFoundError(id), msg |-> "", store |-> store,
          saved |-> FALSE]
    ELSE LET t == Load(store, id)
             newDeps == DeleteFunc(t.depends_on, depID)
         IN  IF t.status # StatusOpen
             THEN [err |-> InvalidStatusError(id, t.status, StatusOpen),
                   msg |-> "", store |-> store, saved |-> FALSE]
             ELSE IF Len(newDeps) = Len(t.depends_on)
             THEN [err |-> NoErr, msg |-> "Dependency not found",
                   store |-> store, saved |-> FALSE]
             ELSE [err |-> NoErr, msg |-> "",
                   store |-> Save(store, [t EXCEPT !.depends_on = newDeps]),
                   saved |-> TRUE]

\* the result of bits undep <id> <depends-on-id>; saved tells whether the
\* command called store.Save
undepResult(store, id, depID) ==
    IF ~Exists(store, id)
    THEN [err |-> TaskNotFoundError(id), msg |-> "", store |-> store,
          saved |-> FALSE]
    ELSE LET t == Load(store, id)
             newDeps == DeleteFunc(t.depends_on, depID)
         IN  IF Len(newDeps) = Len(t.depends_on)
             THEN [err |-> NoErr, msg |-> "Dependency not found",
                   store |-> store, saved |-> FALSE]
             ELSE [err |-> NoErr, msg |-> "",
                   store |-> Save(store, [t EXCEPT !.depends_on = newDeps]),
                   saved |-> TRUE]

\* bits undep <id> <depends-on-id>
undepCmd(id, depID) ==
    LET r == undepResult(tasks, id, depID)
    IN  /\ tasks' = r.store
        /\ last' = Outcome("undep", <<id, depID>>, r.err, r.msg)
        /\ prev' = tasks
        /\ UNCHANGED <<now, session, prevSession, running>>

\* the result of bits prune
pruneResult(store) ==
    LET closed == List(store, [Open |-> FALSE, Active |-> FALSE,
                               Closed |-> TRUE])
    IN  IF Len(closed) = 0
        THEN [msg |-> "No closed tasks to prune", store |-> store]
        ELSE [msg |-> "Pruned", store |-> deleteAll(store, closed)]

\* bits prune
pruneCmd ==
    LET r == pruneResult(tasks)
    IN  /\ tasks' = r.store
        /\ last' = Outcome("prune", <<>>, NoErr, r.msg)
        /\ prev' = tasks
        /\ UNCHANGED <<now, session, prevSession, running>>

\* rmResult stripping the references before it looks for the task
rmResult_StripsFirst(store, taskID) ==
    IF ~Exists(store, taskID)
    THEN [err |-> TaskNotFoundError(taskID),
          store |-> RemoveDependency(store, taskID)]
    ELSE [err |-> NoErr,
          store |-> Delete(RemoveDependency(store, taskID), taskID)]

\* the result of bits rm <id>
rmResult(store, taskID) ==
    IF ~Exists(store, taskID)
    THEN [err |-> TaskNotFoundError(taskID), store |-> store]
    ELSE [err |-> NoErr,
          store |-> Delete(RemoveDependency(store, taskID), taskID)]

\* bits rm <id>
rmCmd(taskID) ==
    LET r == rmResult(tasks, taskID)
    IN  /\ tasks' = r.store
        /\ last' = Outcome("rm", <<taskID>>, r.err, "")
        /\ prev' = tasks
        /\ UNCHANGED <<now, session, prevSession, running>>

\* time passes between two commands
Tick ==
    /\ now < MaxTime
    /\ now' = now + 1
    /\ UNCHANGED <<tasks, last, prev, session, prevSession, running>>

(***************************************************************************)
(* The tracker used by one agent: commands run one after the other.        *)
(***************************************************************************)
Init ==
    /\ tasks = <<>>
    /\ now = 0
    /\ last = Outcome("init", <<>>, NoErr, "")
    /\ prev = <<>>
    /\ session = Nil
    /\ prevSession = Nil
    /\ running = <<>>

Next ==
    \/ \E in \in AddInputs : addCmd(in[1], in[2], in[3])
    \/ \E id \in IDs : claimCmd(id)
    \/ \E id \in IDs : releaseCmd(id)
    \/ \E id \in IDs, reason \in Reasons : closeCmd(id, reason)
    \/ \E taskID \in IDs, depID \in IDs : depCmd(taskID, depID)
    \/ \E id \in IDs, depID \in IDs : undepCmd(id, depID)
    \/ pruneCmd
    \/ \E id \in IDs : rmCmd(id)
    \/ Tick

Spec == Init /\ [][Next]_vars

(***************************************************************************)
(* The graph engine on its own: one process loads the task files it finds, *)
(* builds the graph and calls one of its methods.  The files are drawn     *)
(* from the stores the commands can leave behind: any statuses with at     *)
(* most one active task, depends_on lists without the task itself and      *)
(* without repetition, no cycle, and ids that no file has any more.        *)
(***************************************************************************)
Statuses == {StatusOpen, StatusActive, StatusClosed}
\* "urgent" stands for any priority value PriorityOrder does not know
Priorities ==
    {PriorityCritical, PriorityHigh, PriorityMedium, PriorityLow, "urgent"}

\* the file of a task, as SerializeMarkdown writes it (sec in whole seconds)
TaskFile(id, status, priority, sec, deps) ==
    [id |-> id, title |-> "T", status |-> status, priority |-> priority,
     created_at |-> sec,
     closed_at |-> IF status = StatusClosed THEN Ptr(sec) ELSE Nil,
     close_reason |-> IF status = StatusClosed THEN Ptr("done") ELSE Nil,
     depends_on |-> deps]

\* depends_on lists of up to two different ids
DepLists ==
    {<<>>} \cup {<<x>> : x \in IDs} \cup {d \in IDs \X IDs : d[1] # d[2]}

\* the ids reachable from the ids of frontier along depends_on edges
RECURSIVE ReachableFrom(_, _, _)
ReachableFrom(store, frontier, seen) ==
    LET next == UNION {{store[x].depends_on[i] :
                            i \in 1..Len(store[x].depends_on)} :
                       x \in frontier \cap DOMAIN store}
    IN  IF next \subseteq seen THEN seen
        ELSE ReachableFrom(store, next \ seen, seen \cup next)

\* what the commands keep true of the files
WellFormed(store) ==
    /\ \A id \in DOMAIN store : store[id].id = id
    /\ Cardinality({id \in DOMAIN store :
                        store[id].status = StatusActive}) <= 1
    /\ \A id \in DOMAIN store : id \notin ReachableFrom(store, {id}, {})

\* stores of any shape, all tasks of one priority and one creation second
ShapeStores ==
    UNION {{f \in {[id \in S |-> TaskFile(id, c[id][1], PriorityMedium, 0,
                                           c[id][2])] :
                    c \in [S -> Statuses \X DepLists]} :
                WellFormed(f)} : S \in SUBSET IDs}

\* stores of any priorities and creation seconds: the first task is open,
\* active or closed, the others are open, and the last one depends on the
\* first or on none
OrderStores ==
    LET first == IDSeq[1]
        final == IDSeq[NumIDs]
    IN  {[id \in IDs |->
            TaskFile(id, IF id = first THEN st ELSE StatusOpen,
                     c[id][1], c[id][2],
                     IF id = final THEN ds ELSE <<>>)] :
            st \in Statuses, ds \in {<<>>, <<first>>},
            c \in [IDs -> Priorities \X (0..(MaxTime + 1))]}

\* the graph a command builds from the files
GraphOf(store) == NewGraph(List(store, NoFilter))

WouldCreateCycleCall(from, to) ==
    /\ last.op = "load"
    /\ last' = Outcome("WouldCreateCycle", <<from, to>>, NoErr,
                        WouldCreateCycle(GraphOf(tasks), from, to))
    /\ UNCHANGED <<tasks, now, prev, session, prevSession, running>>

IsBlockedCall(id) ==
    /\ last.op = "load"
    /\ last' = Outcome("IsBlocked", <<id>>, NoErr,
                        IsBlocked(GraphOf(tasks), id))
    /\ UNCHANGED <<tasks, now, prev, session, prevSession, running>>

BlockedByCall(id) ==
    /\ last.op = "load"
    /\ last' = Outcome("BlockedBy", <<id>>, NoErr,
                        BlockedBy(GraphOf(tasks), id))
    /\ UNCHANGED <<tasks, now, prev, session, prevSession, running>>

ReadyCall(order) ==
    /\ last.op = "load"
    /\ last' = Outcome("Ready", <<>>, NoErr, Ready(GraphOf(tasks), order))
    /\ UNCHANGED <<tasks, now, prev, session, prevSession, running>>

DependentsCall(id, order) ==
    /\ last.op = "load"
    /\ last' = Outcome("Dependents", <<id>>, NoErr,
                        Dependents(GraphOf(tasks), id, order))
    /\ UNCHANGED <<tasks, now, prev, session, prevSession, running>>

BuildTreeCall(childOrder, rootOrder) ==
    /\ last.op = "load"
    /\ last' = Outcome("BuildTree", <<>>, NoErr,
                        BuildTree(GraphOf(tasks), childOrder, rootOrder))
    /\ UNCHANGED <<tasks, now, prev, session, prevSession, running>>

GraphInit ==
    /\ tasks \in ShapeStores \cup OrderStores
    /\ now = 0
    /\ last = Outcome("load", <<>>, NoErr, "")
    /\ prev = tasks
    /\ session = Nil
    /\ prevSession = Nil
    /\ running = <<>>

GraphNext ==
    \/ \E from \in IDs, to \in IDs : WouldCreateCycleCall(from, to)
    \/ \E id \in IDs : IsBlockedCall(id)
    \/ \E id \in IDs : BlockedByCall(id)
    \/ \E order \in MapOrders(DOMAIN tasks) : ReadyCall(order)

GraphSpec == GraphInit /\ [][GraphNext]_vars

\* the reverse lookups of the graph display (bits graph), on the same
\* snapshots
TreeNext ==
    \/ \E id \in IDs, order \in MapOrders(DOMAIN tasks) :
            DependentsCall(id, order)
    \/ \E childOrder \in MapOrders(DOMAIN tasks),
          rootOrder \in MapOrders(DOMAIN tasks) :
            BuildTreeCall(childOrder, rootOrder)

TreeSpec == GraphInit /\ [][TreeNext]_vars

(***************************************************************************)
(* The two walks of the graph, one iteration or call at a time, on task    *)
(* files of any content: depends_on lists may name the task itself and may *)
(* close a cycle (files edited by hand, or written by overlapping          *)
(* commands).  running holds the local variables of the call in progress.  *)
(***************************************************************************)
AnyStores ==
    UNION {{[id \in S |-> TaskFile(id, StatusOpen, PriorityMedium, 0, c[id])] :
                c \in [S -> DepLists]} : S \in SUBSET IDs}

\* the loop of WouldCreateCycle without the visited map
wouldCreateCycleStep_NoVisited(g, p) ==
    IF p.queue = <<>> THEN [done |-> TRUE, result |-> FALSE, p |-> p]
    ELSE LET current == Head(p.queue)
             rest == Tail(p.queue)
             q == [p EXCEPT !.queue = rest, !.iterations = @ + 1]
         IN  IF current = p.from
             THEN [done |-> TRUE, result |-> TRUE, p |-> q]
             ELSE IF current \notin DOMAIN g
             THEN [done |-> FALSE, result |-> FALSE, p |-> q]
             ELSE [done |-> FALSE, result |-> FALSE,
                   p |-> [q EXCEPT !.queue = rest \o g[current].depends_on,
                                   !.expanded = Append(@, current)]]

\* one iteration of the loop of WouldCreateCycle (or its exit when the
\* queue is empty): p.expanded lists the ids whose depends_on was appended
\* to the queue, p.iterations counts the iterations
wouldCreateCycleStep(g, p) ==
    IF p.queue = <<>> THEN [done |-> TRUE, result |-> FALSE, p |-> p]
    ELSE LET current == Head(p.queue)
             rest == Tail(p.queue)
             q == [p EXCEPT !.queue = rest, !.iterations = @ + 1]
         IN  IF current = p.from
             THEN [done |-> TRUE, result |-> TRUE, p |-> q]
             ELSE IF current \in p.visited
             THEN [done |-> FALSE, result |-> FALSE, p |-> q]
             ELSE IF current \notin DOMAIN g
             THEN [done |-> FALSE, result |-> FALSE,
                   p |-> [q EXCEPT !.visited = @ \cup {current}]]
             ELSE [done |-> FALSE, result |-> FALSE,
                   p |-> [q EXCEPT !.queue = rest \o g[current].depends_on,
                                   !.visited = @ \cup {current},
                                   !.expanded = Append(@, current)]]

\* WouldCreateCycle(from, to) is called
WouldCreateCycleStart(from, to) ==
    /\ last.op = "load"
    /\ running = <<>>
    /\ running' = <<[op |-> "WouldCreateCycle", from |-> from, to |-> to,
                     queue |-> <<to>>, visited |-> {}, expanded |-> <<>>,
                     iterations |-> 0]>>
    /\ UNCHANGED <<tasks, now, last, prev, session, prevSession>>

\* the call goes through one iteration, or returns
WouldCreateCycleLoop ==
    /\ running # <<>>
    /\ running[1].op = "WouldCreateCycle"
    /\ LET r == wouldCreateCycleStep(GraphOf(tasks), running[1])
       IN  IF r.done
           THEN /\ running' = <<>>
                /\ last' = Outcome("WouldCreateCycle",
                                   <<running[1].from, running[1].to>>, NoErr,
                                   [result |-> r.result,
                                    expanded |-> r.p.expanded,
                                    iterations |-> r.p.iterations])
           ELSE /\ running' = <<r.p>>
                /\ UNCHANGED last
    /\ UNCHANGED <<tasks, now, prev, session, prevSession>>

\* one step of BuildTree after its roots are sorted: a call of buildNode, or
\* the return of one.  p.stack holds the calls of buildNode in progress
\* (the task, the children still to visit, the nodes built so far),
\* p.visited the visited map of the root in hand, p.calls the calls made
buildTreeStep(g, p) ==
    IF p.stack = <<>>
    THEN IF p.roots = <<>>
         THEN [done |-> TRUE, p |-> p]
         ELSE LET root == Head(p.roots)
              IN  [done |-> FALSE,
                   p |-> [p EXCEPT
                            !.roots = Tail(@),
                            !.visited = {root.id},
                            !.calls = Append(@, root.id),
                            !.stack = <<[t |-> root,
                                         todo |-> childrenLoop(g, p.order,
                                                               root.id),
                                         nodes |-> <<>>]>>]]
    ELSE LET depth == Len(p.stack)
             top == p.stack[depth]
         IN  IF top.todo # <<>>
             THEN LET child == Head(top.todo)
                      q == [p EXCEPT !.stack[depth].todo = Tail(@),
                                     !.calls = Append(@, child.id)]
                  IN  IF child.id \in p.visited
                      THEN [done |-> FALSE,
                            p |-> [q EXCEPT !.stack[depth].nodes =
                                      Append(@, [Task |-> child,
                                                 Children |-> <<>>])]]
                      ELSE [done |-> FALSE,
                            p |-> [q EXCEPT
                                     !.visited = @ \cup {child.id},
                                     !.stack = Append(@,
                                        [t |-> child,
                                         todo |-> childrenLoop(g, p.order,
                                                               child.id),
                                         nodes |-> <<>>])]]
             ELSE LET node == [Task |-> top.t,
                               Children |-> sortNodes(top.nodes)]
                      popped == SubSeq(p.stack, 1, depth - 1)
                  IN  IF depth = 1
                      THEN [done |-> FALSE,
                            p |-> [p EXCEPT !.stack = popped,
                                            !.nodes = Append(@, node)]]
                      ELSE [done |-> FALSE,
                            p |-> [p EXCEPT
                                     !.stack = [popped EXCEPT
                                        ![depth - 1].nodes = Append(@, node)]]]

\* BuildTree is called: the two loops over the map and the sort of the roots
BuildTreeStart(childOrder, rootOrder) ==
    /\ last.op = "load"
    /\ running = <<>>
    /\ running' = <<[op |-> "BuildTree", order |-> childOrder,
                     rootOrder |-> rootOrder,
                     roots |-> sortReady(rootsLoop(GraphOf(tasks), rootOrder,
                                                   rootOrder)),
                     nodes |-> <<>>, stack |-> <<>>, visited |-> {},
                     calls |-> <<>>]>>
    /\ UNCHANGED <<tasks, now, last, prev, session, prevSession>>

\* the call goes through one step, or returns
BuildTreeLoop ==
    /\ running # <<>>
    /\ running[1].op = "BuildTree"
    /\ LET r == buildTreeStep(GraphOf(tasks), running[1])
       IN  IF r.done
           THEN /\ running' = <<>>
                /\ last' = Outcome("BuildTree",
                                   <<running[1].order, running[1].rootOrder>>,
                                   NoErr,
                                   [result |-> r.p.nodes, calls |-> r.p.calls])
           ELSE /\ running' = <<r.p>>
                /\ UNCHANGED last
    /\ UNCHANGED <<tasks, now, prev, session, prevSession>>

WalkInit ==
    /\ tasks \in AnyStores
    /\ now = 0
    /\ last = Outcome("load", <<>>, NoErr, "")
    /\ prev = tasks
    /\ session = Nil
    /\ prevSession = Nil
    /\ running = <<>>

WalkNext ==
    \/ \E from \in IDs, to \in IDs : WouldCreateCycleStart(from, to)
    \/ WouldCreateCycleLoop
    \/ \E childOrder \in MapOrders(DOMAIN tasks),
          rootOrder \in MapOrders(DOMAIN tasks) :
            BuildTreeStart(childOrder, rootOrder)
    \/ BuildTreeLoop

WalkSpec == WalkInit /\ [][WalkNext]_vars

(***************************************************************************)
(* bits rm write by write.  The command changes the directory in two       *)
(* steps, and what is on disk between them is what another command, or the *)
(* user after a crash, finds.                                              *)
(***************************************************************************)
\* rm deleting the file of the task before it cleans the other files
rmStep_DeleteFirst(store, taskID, k) ==
    IF k = 1 THEN Delete(store, taskID) ELSE RemoveDependency(store, taskID)

\* the k-th write of bits rm <id>: store.RemoveDependency, then store.Delete
rmStep(store, taskID, k) ==
    IF k = 1 THEN RemoveDependency(store, taskID) ELSE Delete(store, taskID)

\* bits rm <id> starts: store.Load
rmLoad(taskID) ==
    /\ running = <<>>
    /\ prev' = tasks
    /\ IF ~Exists(tasks, taskID)
       THEN /\ last' = Outcome("rm", <<taskID>>, TaskNotFoundError(taskID), "")
            /\ running' = <<>>
       ELSE /\ running' = <<[op |-> "rm", id |-> taskID, pc |-> 1]>>
            /\ UNCHANGED last
    /\ UNCHANGED <<tasks, now, session, prevSession>>

\* the running rm does its next write, and ends after the second
rmWrite ==
    /\ running # <<>>
    /\ running[1].op = "rm"
    /\ LET p == running[1]
       IN  /\ tasks' = rmStep(tasks, p.id, p.pc)
           /\ IF p.pc = 1
              THEN /\ running' = <<[p EXCEPT !.pc = 2]>>
                   /\ UNCHANGED last
              ELSE /\ running' = <<>>
                   /\ last' = Outcome("rm", <<p.id>>, NoErr, "")
    /\ UNCHANGED <<now, prev, session, prevSession>>

RmInit ==
    /\ tasks \in ShapeStores
    /\ now = 0
    /\ last = Outcome("load", <<>>, NoErr, "")
    /\ prev = tasks
    /\ session = Nil
    /\ prevSession = Nil
    /\ running = <<>>

RmNext ==
    \/ \E taskID \in IDs : rmLoad(taskID)
    \/ rmWrite

RmSpec == RmInit /\ [][RmNext]_vars

(***************************************************************************)
(* internal/session: the session file                                      *)
(***************************************************************************)
\* the session ids and sources the hooks of two agents send
SessionIDs == {"session-1", "session-2"}
Sources == {"startup", "resume"}

\* os.IsNotExist(err) of session.Load
NotExistError == [kind |-> "NotExist"]

\* json.MarshalIndent of a Session: times are written in full (RFC3339Nano),
\* a nil DrainStartedAt is left out (omitempty)
MarshalSession(s) ==
    [session_id |-> s.SessionID, started_at |-> s.StartedAt,
     source |-> s.Source, drain_active |-> s.DrainActive,
     drain_started_at |-> s.DrainStartedAt]

\* json.Unmarshal into a Session
UnmarshalSession(f) ==
    [SessionID |-> f.session_id, StartedAt |-> f.started_at,
     Source |-> f.source, DrainActive |-> f.drain_active,
     DrainStartedAt |-> f.drain_started_at]

\* session.Claim overwriting the file when the caller is its owner
Claim_OwnerReclaims(file, sessionID, source, t) ==
    IF file # Nil /\ UnmarshalSession(file[1]).SessionID # sessionID
    THEN [claimed |-> FALSE, owner |-> UnmarshalSession(file[1]).SessionID,
          err |-> NoErr, file |-> file]
    ELSE [claimed |-> TRUE, owner |-> "", err |-> NoErr,
          file |-> Ptr(MarshalSession(
                    [SessionID |-> sessionID, StartedAt |-> t,
                     Source |-> source, DrainActive |-> FALSE,
                     DrainStartedAt |-> Nil]))]

\* session.Claim at time t: what it returns and the file it leaves
Claim(file, sessionID, source, t) ==
    IF file # Nil
    THEN [claimed |-> FALSE, owner |-> UnmarshalSession(file[1]).SessionID,
          err |-> NoErr, file |-> file]
    ELSE [claimed |-> TRUE, owner |-> "", err |-> NoErr,
          file |-> Ptr(MarshalSession(
                    [SessionID |-> sessionID, StartedAt |-> t,
                     Source |-> source, DrainActive |-> FALSE,
                     DrainStartedAt |-> Nil]))]

\* session.Release deleting the file for any caller
Release_AnyCaller(file, sessionID) ==
    IF file = Nil THEN [released |-> FALSE, err |-> NoErr, file |-> file]
    ELSE [released |-> TRUE, err |-> NoErr, file |-> Nil]

\* session.Release: what it returns and the file it leaves
Release(file, sessionID) ==
    IF file = Nil THEN [released |-> FALSE, err |-> NoErr, file |-> file]
    ELSE IF UnmarshalSession(file[1]).SessionID # sessionID
         THEN [released |-> FALSE, err |-> NoErr, file |-> file]
         ELSE [released |-> TRUE, err |-> NoErr, file |-> Nil]

\* session.SetDrainActive leaving drain_started_at in place when it turns
\* drain mode off
SetDrainActive_KeepsStartedAt(file, sessionID, active, t) ==
    IF file = Nil THEN [ok |-> FALSE, err |-> NotExistError, file |-> file]
    ELSE LET existing == UnmarshalSession(file[1])
         IN  IF existing.SessionID # sessionID
             THEN [ok |-> FALSE, err |-> NoErr, file |-> file]
             ELSE [ok |-> TRUE, err |-> NoErr,
                   file |-> Ptr(MarshalSession(
                     [existing EXCEPT
                        !.DrainActive = active,
                        !.DrainStartedAt = IF active THEN Ptr(t) ELSE @]))]

\* session.SetDrainActive at time t: what it returns and the file it leaves
SetDrainActive(file, sessionID, active, t) ==
    IF file = Nil THEN [ok |-> FALSE, err |-> NotExistError, file |-> file]
    ELSE LET existing == UnmarshalSession(file[1])
         IN  IF existing.SessionID # sessionID
             THEN [ok |-> FALSE, err |-> NoErr, file |-> file]
             ELSE [ok |-> TRUE, err |-> NoErr,
                   file |-> Ptr(MarshalSession(
                     [existing EXCEPT
                        !.DrainActive = active,
                        !.DrainStartedAt = IF active THEN Ptr(t) ELSE Nil]))]

\* one call of session.Claim
ClaimCall(sessionID, source) ==
    LET r == Claim(session, sessionID, source, now)
    IN  /\ session' = r.file
        /\ last' = Outcome("Claim", <<sessionID, source>>, r.err,
                           <<r.claimed, r.owner>>)
        /\ prevSession' = session
        /\ UNCHANGED <<tasks, now, prev, running>>

\* one call of session.Release
ReleaseCall(sessionID) ==
    LET r == Release(session, sessionID)
    IN  /\ session' = r.file
        /\ last' = Outcome("Release", <<sessionID>>, r.err, <<r.released>>)
        /\ prevSession' = session
        /\ UNCHANGED <<tasks, now, prev, running>>

\* one call of session.SetDrainActive
SetDrainActiveCall(sessionID, active) ==
    LET r == SetDrainActive(session, sessionID, active, now)
    IN  /\ session' = r.file
        /\ last' = Outcome("SetDrainActive", <<sessionID, active>>, r.err,
                           <<r.ok>>)
        /\ prevSession' = session
        /\ UNCHANGED <<tasks, now, prev, running>>

(***************************************************************************)
(* The session file used by two agents whose calls do not overlap.         *)
(***************************************************************************)
SessionInit ==
    /\ tasks = <<>>
    /\ now = 0
    /\ last = Outcome("init", <<>>, NoErr, "")
    /\ prev = <<>>
    /\ session = Nil
    /\ prevSession = Nil
    /\ running = <<>>

SessionNext ==
    \/ \E s \in SessionIDs, source \in Sources : ClaimCall(s, source)
    \/ \E s \in SessionIDs : ReleaseCall(s)
    \/ \E s \in SessionIDs, active \in BOOLEAN : SetDrainActiveCall(s, active)
    \/ Tick

SessionSpec == SessionInit /\ [][SessionNext]_vars

(***************************************************************************)
(* cmd/bits: the session, hook, drain and init commands                    *)
(***************************************************************************)
\* formatActiveBlock: the hook response that names the active task
formatActiveBlock(t) ==
    [decision |-> "block",
     reason |-> <<"Continue working on task", t.id>>,
     systemMessage |-> <<"Task", t.id, "Still active">>]

\* formatOpenBlock: the hook response that counts the open tasks
formatOpenBlock(count) ==
    [decision |-> "block",
     reason |-> <<"There are", count, "open tasks remaining">>,
     systemMessage |-> <<count, "open tasks remaining">>]

\* the hook blocking whoever calls it
hookOutput_NoOwnerCheck(store, file, sessionID) ==
    IF file = Nil THEN Nil
    ELSE LET sess == UnmarshalSession(file[1])
             activeTasks == List(store, [Open |-> FALSE, Active |-> TRUE,
                                         Closed |-> FALSE])
             openTasks == List(store, [Open |-> TRUE, Active |-> FALSE,
                                       Closed |-> FALSE])
         IN  IF ~sess.DrainActive THEN Nil
             ELSE IF Len(activeTasks) > 0
                  THEN Ptr(formatActiveBlock(activeTasks[1]))
             ELSE IF Len(openTasks) > 0
                  THEN Ptr(formatOpenBlock(Len(openTasks)))
             ELSE Nil

\* the hook counting the open tasks that are ready only
hookOutput_CountsReady(store, file, sessionID) ==
    IF file = Nil THEN Nil
    ELSE LET sess == UnmarshalSession(file[1])
             activeTasks == List(store, [Open |-> FALSE, Active |-> TRUE,
                                         Closed |-> FALSE])
             ready == {id \in DOMAIN store :
                          /\ store[id].status = StatusOpen
                          /\ ~IsBlocked(NewGraph(List(store, NoFilter)), id)}
         IN  IF sess.SessionID # sessionID THEN Nil
             ELSE IF ~sess.DrainActive THEN Nil
             ELSE IF Len(activeTasks) > 0
                  THEN Ptr(formatActiveBlock(activeTasks[1]))
             ELSE IF ready # {}
                  THEN Ptr(formatOpenBlock(Cardinality(ready)))
             ELSE Nil

\* what bits session hook writes for the session id on its stdin: Nil when it
\* exits without output, which lets the agent stop
hookOutput(store, file, sessionID) ==
    IF file = Nil THEN Nil
    ELSE LET sess == UnmarshalSession(file[1])
             activeTasks == List(store, [Open |-> FALSE, Active |-> TRUE,
                                         Closed |-> FALSE])
             openTasks == List(store, [Open |-> TRUE, Active |-> FALSE,
                                       Closed |-> FALSE])
         IN  IF sess.SessionID # sessionID THEN Nil
             ELSE IF ~sess.DrainActive THEN Nil
             ELSE IF Len(activeTasks) > 0
                  THEN Ptr(formatActiveBlock(activeTasks[1]))
             ELSE IF Len(openTasks) > 0
                  THEN Ptr(formatOpenBlock(Len(openTasks)))
             ELSE Nil

\* bits session hook
sessionHookCmd(sessionID) ==
    /\ last' = Outcome("session hook", <<sessionID>>, NoErr,
                        hookOutput(tasks, session, sessionID))
    /\ prev' = tasks
    /\ prevSession' = session
    /\ UNCHANGED <<tasks, now, session, running>>

\* bits session claim
sessionClaimCmd(sessionID, source) ==
    LET r == Claim(session, sessionID, source, now)
    IN  /\ session' = r.file
        /\ last' = Outcome("session claim", <<sessionID, source>>, r.err,
                           [claimed |-> r.claimed, owner |-> r.owner])
        /\ prev' = tasks
        /\ prevSession' = session
        /\ UNCHANGED <<tasks, now, running>>

\* bits session release
sessionReleaseCmd(sessionID) ==
    LET r == Release(session, sessionID)
    IN  /\ session' = r.file
        /\ last' = Outcome("session release", <<sessionID>>, r.err,
                           [released |-> r.released])
        /\ prev' = tasks
        /\ prevSession' = session
        /\ UNCHANGED <<tasks, now, running>>

\* bits session prune
sessionPruneCmd ==
    /\ session' = Nil
    /\ last' = Outcome("session prune", <<>>, NoErr,
                        IF session = Nil THEN "No session file to prune"
                        ELSE "Session file pruned")
    /\ prev' = tasks
    /\ prevSession' = session
    /\ UNCHANGED <<tasks, now, running>>

\* the result of bits drain claim at time t: the response, the exit code
\* and the session file it leaves
drainClaimResult(file, t) ==
    IF file = Nil
    THEN [resp |-> [Success |-> FALSE, DrainActive |-> FALSE,
                    Message |-> "No session file exists"],
          exit |-> 1, file |-> file]
    ELSE [resp |-> [Success |-> TRUE, DrainActive |-> TRUE,
                    Message |-> "Drain mode activated"],
          exit |-> 0,
          file |-> SetDrainActive(file, UnmarshalSession(file[1]).SessionID,
                                  TRUE, t).file]

\* bits drain claim
drainClaimCmd ==
    LET r == drainClaimResult(session, now)
    IN  /\ session' = r.file
        /\ last' = Outcome("drain claim", <<>>, NoErr,
                           [resp |-> r.resp, exit |-> r.exit])
        /\ prev' = tasks
        /\ prevSession' = session
        /\ UNCHANGED <<tasks, now, running>>

\* drain release as it was before the check for remaining tasks
drainReleaseResult_NoTaskCheck(store, file, t) ==
    IF file = Nil
    THEN [resp |-> [Success |-> FALSE, DrainActive |-> FALSE,
                    Message |-> "No session file exists"],
          exit |-> 0, file |-> file]
    ELSE [resp |-> [Success |-> TRUE, DrainActive |-> FALSE,
                    Message |-> "Drain mode deactivated"],
          exit |-> 0,
          file |-> SetDrainActive(file, UnmarshalSession(file[1]).SessionID,
                                  FALSE, t).file]

\* the result of bits drain release at time t
drainReleaseResult(store, file, t) ==
    IF file = Nil
    THEN [resp |-> [Success |-> FALSE, DrainActive |-> FALSE,
                    Message |-> "No session file exists"],
          exit |-> 0, file |-> file]
    ELSE LET activeTasks == List(store, [Open |-> FALSE, Active |-> TRUE,
                                         Closed |-> FALSE])
             openTasks == List(store, [Open |-> TRUE, Active |-> FALSE,
                                       Closed |-> FALSE])
         IN  IF Len(activeTasks) > 0 \/ Len(openTasks) > 0
             THEN [resp |-> [Success |-> FALSE, DrainActive |-> TRUE,
                             Message |-> <<Len(activeTasks), "active and",
                                           Len(openTasks),
                                           "open tasks remaining">>],
                   exit |-> 1, file |-> file]
             ELSE [resp |-> [Success |-> TRUE, DrainActive |-> FALSE,
                             Message |-> "Drain mode deactivated"],
                   exit |-> 0,
                   file |-> SetDrainActive(file,
                               UnmarshalSession(file[1]).SessionID,
                               FALSE, t).file]

\* bits drain release
drainReleaseCmd ==
    LET r == drainReleaseResult(tasks, session, now)
    IN  /\ session' = r.file
        /\ last' = Outcome("drain release", <<>>, NoErr,
                           [resp |-> r.resp, exit |-> r.exit])
        /\ prev' = tasks
        /\ prevSession' = session
        /\ UNCHANGED <<tasks, now, running>>

\* bits init --force: os.RemoveAll of the directory, task files and
\* session.json alike
initForceCmd ==
    /\ tasks' = <<>>
    /\ session' = Nil
    /\ last' = Outcome("init --force", <<>>, NoErr, "Reinitialized")
    /\ prev' = tasks
    /\ prevSession' = session
    /\ UNCHANGED <<now, running>>

(***************************************************************************)
(* Two agents on one project: task commands, session commands, the stop    *)
(* hook and drain mode, in any order, one command at a time.               *)
(***************************************************************************)
\* the identifiers GenerateID produces here: one less than in Spec
DrainIDs == {IDSeq[i] : i \in 1..(NumIDs - 1)}

DrainInit ==
    /\ tasks = <<>>
    /\ now = 0
    /\ last = Outcome("init", <<>>, NoErr, "")
    /\ prev = <<>>
    /\ session = Nil
    /\ prevSession = Nil
    /\ running = <<>>

DrainNext ==
    \/ \E in \in AddInputs :
        in[3] \in DrainIDs /\ addCmd(in[1], in[2], in[3])
    \/ \E id \in DrainIDs : claimCmd(id)
    \/ \E id \in DrainIDs : releaseCmd(id)
    \/ \E id \in DrainIDs : closeCmd(id, "done")
    \/ \E taskID \in DrainIDs, depID \in DrainIDs : depCmd(taskID, depID)
    \/ \E id \in DrainIDs, depID \in DrainIDs : undepCmd(id, depID)
    \/ pruneCmd
    \/ \E id \in DrainIDs : rmCmd(id)
    \/ \E s \in SessionIDs : sessionClaimCmd(s, "startup")
    \/ \E s \in SessionIDs : sessionReleaseCmd(s)
    \/ sessionPruneCmd
    \/ \E s \in SessionIDs : sessionHookCmd(s)
    \/ drainClaimCmd
    \/ drainReleaseCmd
    \/ initForceCmd
    \/ Tick

DrainSpec == DrainInit /\ [][DrainNext]_vars

(***************************************************************************)
(* Two agents on one directory.  Every command is a process of its own and *)
(* nothing locks the files, so the reads and the write of a command are    *)
(* separate steps and the steps of two commands interleave.  running keeps *)
(* every command started, finished ones included: who runs it, what it     *)
(* read, what it answered, and at which steps it read and wrote.           *)
(***************************************************************************)
MaxRunning == 2

\* the number of the coming step
Clock ==
    1 + Len(running)
      + Cardinality({i \in 1..Len(running) : running[i].at.read > 0})
      + Cardinality({i \in 1..Len(running) : running[i].at.write > 0})

\* an agent starts a command when its last one has ended
CanStart(by) ==
    /\ Len(running) < MaxRunning
    /\ \A i \in 1..Len(running) : running[i].by = by => running[i].pc = "done"

\* a command that has just started
Started(op, by, args) ==
    [op |-> op, by |-> by, args |-> args, pc |-> "started", file |-> Nil,
     t |-> Nil, list |-> <<>>, err |-> NoErr, msg |-> "",
     at |-> [start |-> Clock, read |-> 0, write |-> 0]]

\* the end of session.Claim with an exclusive create: the file is written
\* only if there is none at that moment
sessionClaimSave_Exclusive(file, p, t) ==
    IF file # Nil
    THEN [claimed |-> FALSE, owner |-> UnmarshalSession(file[1]).SessionID,
          err |-> NoErr, file |-> file]
    ELSE Claim(file, p.args[1], p.args[2], t)

\* the end of session.Claim after Load returned p.file: what it returns,
\* and the file it leaves where file is on disk now (Save replaces it)
sessionClaimSave(file, p, t) ==
    LET r == Claim(p.file, p.args[1], p.args[2], t)
    IN  [claimed |-> r.claimed, owner |-> r.owner, err |-> r.err,
         file |-> IF r.claimed THEN r.file ELSE file]

\* bits session claim starts: session.Load
sessionClaimLoad(sessionID, source) ==
    /\ CanStart(sessionID)
    /\ running' = Append(running,
                    [Started("session claim", sessionID, <<sessionID, source>>)
                        EXCEPT !.pc = "loaded", !.file = session,
                               !.at.read = Clock])
    /\ UNCHANGED <<tasks, now, last, prev, session, prevSession>>

\* bits session claim goes on: the file is created if Load found none
sessionClaimEnd(i) ==
    /\ running[i].op = "session claim"
    /\ running[i].pc = "loaded"
    /\ LET p == running[i]
           r == sessionClaimSave(session, p, now)
       IN  /\ session' = r.file
           /\ prevSession' = session
           /\ running' = [running EXCEPT
                            ![i].pc = "done",
                            ![i].err = r.err,
                            ![i].msg = [claimed |-> r.claimed,
                                        owner |-> r.owner],
                            ![i].at.write = IF r.claimed THEN Clock ELSE 0]
           /\ last' = Outcome("session claim", p.args, r.err,
                              [claimed |-> r.claimed, owner |-> r.owner])
    /\ UNCHANGED <<tasks, now, prev>>

\* the checks of claimCmd on the task it loaded and the tasks it listed
claimCheck(t, list) ==
    LET active == FindActive(list)
        blockers == BlockedBy(NewGraph(list), t.id)
    IN  IF active # Nil
        THEN ActiveTaskExistsError(active[1].id, active[1].title)
        ELSE IF Len(blockers) > 0 THEN BlockedError(t.id, blockers)
        ELSE NoErr

\* the write of claimCmd made only while no task is active on disk
claimSave_Exclusive(store, t) ==
    IF \E id \in DOMAIN store : store[id].status = StatusActive
    THEN store
    ELSE Save(store, [t EXCEPT !.status = StatusActive])

\* the write of claimCmd: the task as it was loaded, now active
claimSave(store, t) == Save(store, [t EXCEPT !.status = StatusActive])

\* bits claim <id> starts: store.Load and the check of the status
claimLoad(by, id) ==
    /\ CanStart(by)
    /\ LET p == Started("claim", by, <<id>>)
           err == IF ~Exists(tasks, id) THEN TaskNotFoundError(id)
                  ELSE IF Load(tasks, id).status # StatusOpen
                  THEN InvalidStatusError(id, Load(tasks, id).status,
                                          StatusOpen)
                  ELSE NoErr
       IN  IF err # NoErr
           THEN /\ running' = Append(running,
                                [p EXCEPT !.pc = "done", !.err = err])
                /\ last' = Outcome("claim", <<id>>, err, "")
           ELSE /\ running' = Append(running,
                                [p EXCEPT !.pc = "loaded",
                                          !.t = Ptr(Load(tasks, id))])
                /\ UNCHANGED last
    /\ UNCHANGED <<tasks, now, prev, session, prevSession>>

\* bits claim <id> goes on: store.List, FindActive, BlockedBy
claimList(i) ==
    /\ running[i].op = "claim"
    /\ running[i].pc = "loaded"
    /\ LET p == running[i]
           list == List(tasks, NoFilter)
           err == claimCheck(p.t[1], list)
       IN  IF err # NoErr
           THEN /\ running' = [running EXCEPT ![i].pc = "done",
                                              ![i].list = list,
                                              ![i].err = err,
                                              ![i].at.read = Clock]
                /\ last' = Outcome("claim", p.args, err, "")
           ELSE /\ running' = [running EXCEPT ![i].pc = "listed",
                                              ![i].list = list,
                                              ![i].at.read = Clock]
                /\ UNCHANGED last
    /\ UNCHANGED <<tasks, now, prev, session, prevSession>>

\* bits claim <id> ends: store.Save
claimEnd(i) ==
    /\ running[i].op = "claim"
    /\ running[i].pc = "listed"
    /\ tasks' = claimSave(tasks, running[i].t[1])
    /\ running' = [running EXCEPT ![i].pc = "done", ![i].at.write = Clock]
    /\ last' = Outcome("claim", running[i].args, NoErr, "")
    /\ UNCHANGED <<now, prev, session, prevSession>>

\* the task files the agents find: no task is active
RaceInit ==
    /\ tasks \in {store \in ShapeStores :
                    \A id \in DOMAIN store : store[id].status # StatusActive}
    /\ now = 0
    /\ last = Outcome("load", <<>>, NoErr, "")
    /\ prev = tasks
    /\ session = Nil
    /\ prevSession = Nil
    /\ running = <<>>

RaceNext ==
    \/ \E s \in SessionIDs : sessionClaimLoad(s, "startup")
    \/ \E i \in 1..Len(running) : sessionClaimEnd(i)
    \/ \E by \in SessionIDs, id \in IDs : claimLoad(by, id)
    \/ \E i \in 1..Len(running) : claimList(i)
    \/ \E i \in 1..Len(running) : claimEnd(i)

RaceSpec == RaceInit /\ [][RaceNext]_vars

(***************************************************************************)
(* Vocabulary of the properties                                            *)
(***************************************************************************)
\* the ids of the items with the given status
WithStatus(store, status) == {id \in DOMAIN store : store[id].status = status}

\* the set of the elements of a sequence
Range(s) == {s[i] : i \in 1..Len(s)}

\* the ids x depends on, directly or through other items
Descendants(store, x) == ReachableFrom(store, {x}, {})

\* the dependencies of id that exist and are not closed, in depends_on order
Unresolved(store, id) ==
    SelectSeq(store[id].depends_on,
              LAMBDA d : d \in DOMAIN store /\ store[d].status # StatusClosed)

(***************************************************************************)
(* C1: after any sequence of commands run one after the other, at most     *)
(* one item has status active.                                             *)
(***************************************************************************)
C1_SingleActive == Cardinality(WithStatus(tasks, StatusActive)) <= 1

\* a claim was refused because another item is active
C1_Witness ==
    /\ last.op = "claim" /\ last.err.kind = "ActiveTaskExists"
    /\ Cardinality(WithStatus(tasks, StatusActive)) = 1
    /\ WithStatus(tasks, StatusOpen) # {}

(***************************************************************************)
(* C2: the graph of all items' depends_on edges has no cycle, also when an *)
(* item is created under an identifier that other items still list after   *)
(* it was pruned.                                                          *)
(***************************************************************************)
C2_Acyclic == \A x \in DOMAIN tasks : x \notin Descendants(tasks, x)

\* an item has just been created under an identifier that another item,
\* which depends on a third one, still lists
C2_WitnessReuse ==
    /\ last.op = "add" /\ last.err = NoErr
    /\ \E x \in DOMAIN tasks :
            /\ Contains(tasks[x].depends_on, last.msg)
            /\ Len(tasks[x].depends_on) = 2

(***************************************************************************)
(* C3 as written: with a active and b open and depending on a, claim b     *)
(* fails with Blocked{id: b, blockedBy: [a]}.                              *)
(***************************************************************************)
C3_Original ==
    \A a, b \in DOMAIN prev :
        /\ last.op = "claim" /\ last.args = <<b>>
        /\ a # b
        /\ prev[a].status = StatusActive /\ prev[a].depends_on = <<>>
        /\ prev[b].status = StatusOpen /\ prev[b].depends_on = <<a>>
        => last.err = BlockedError(b, <<a>>)

(***************************************************************************)
(* C3 amended: with b open and depending on a only, claim b while a is     *)
(* active fails with ActiveTaskExists{a, title of a} and changes nothing;  *)
(* claim b once a is closed with reason "done" (and nothing else is        *)
(* active) makes b active.                                                 *)
(***************************************************************************)
C3_ClaimBehindActive ==
    \A a, b \in DOMAIN prev :
        /\ last.op = "claim" /\ last.args = <<b>>
        /\ a # b
        /\ prev[b].status = StatusOpen /\ prev[b].depends_on = <<a>>
        => /\ prev[a].status = StatusActive
              => /\ last.err = ActiveTaskExistsError(a, prev[a].title)
                 /\ tasks = prev
           /\ (/\ prev[a].status = StatusClosed
               /\ prev[a].close_reason = Ptr("done")
               /\ WithStatus(prev, StatusActive) = {})
              => /\ last.err = NoErr
                 /\ tasks[b].status = StatusActive

\* b was claimed after the item it depends on was closed
C3_Witness ==
    \E a, b \in DOMAIN tasks :
        /\ last = Outcome("claim", <<b>>, NoErr, "")
        /\ prev[b].status = StatusOpen
        /\ tasks[b].status = StatusActive /\ tasks[b].depends_on = <<a>>
        /\ tasks[a].status = StatusClosed /\ tasks[a].close_reason = Ptr("done")

(***************************************************************************)
(* C4: claim of an open item while another item is active fails with       *)
(* ActiveTaskExists carrying the id and the title of the active item, also *)
(* when the claimed item has unresolved dependencies, and changes nothing. *)
(***************************************************************************)
C4_ActiveTaskExists ==
    \A id, x \in DOMAIN prev :
        /\ last.op = "claim" /\ last.args = <<id>>
        /\ x # id
        /\ prev[id].status = StatusOpen
        /\ prev[x].status = StatusActive
        => /\ last.err = ActiveTaskExistsError(x, prev[x].title)
           /\ tasks = prev

\* the refused claim was of an item whose dependency is not closed, and the
\* two items have different titles
C4_Witness ==
    \E id, x \in DOMAIN prev :
        /\ last = Outcome("claim", <<id>>,
                          ActiveTaskExistsError(x, prev[x].title), "")
        /\ prev[id].status = StatusOpen
        /\ prev[id].title # prev[x].title
        /\ Unresolved(prev, id) # <<>>

(***************************************************************************)
(* C5: a claim that succeeds was of an open item all of whose existing     *)
(* dependencies were closed; a claim of an open item with no active item   *)
(* in the store and unresolved dependencies fails with Blocked listing     *)
(* exactly those dependencies.                                             *)
(***************************************************************************)
C5_ClaimGuard ==
    \A id \in IDs :
        last.op = "claim" /\ last.args = <<id>>
        => /\ last.err = NoErr
              => /\ id \in DOMAIN prev
                 /\ prev[id].status = StatusOpen
                 /\ \A d \in Range(prev[id].depends_on) \cap DOMAIN prev :
                        prev[d].status = StatusClosed
           /\ (/\ id \in DOMAIN prev
               /\ prev[id].status = StatusOpen
               /\ WithStatus(prev, StatusActive) = {}
               /\ Unresolved(prev, id) # <<>>)
              => /\ last.err = BlockedError(id, Unresolved(prev, id))
                 /\ tasks = prev

\* a claim was refused for one of the two dependencies of the item
C5_Witness ==
    /\ last.op = "claim" /\ last.err.kind = "Blocked"
    /\ Len(prev[last.args[1]].depends_on) = 2
    /\ Len(last.err.blockedBy) = 1

(***************************************************************************)
(* C6: the status of an item changes only from open to active by claim,    *)
(* from active to open by release and from active to closed by close; a    *)
(* closed item stays closed until rm or prune deletes it.                  *)
(***************************************************************************)
C6_Transitions ==
    \A id \in DOMAIN prev :
        /\ (id \in DOMAIN tasks /\ tasks[id].status # prev[id].status)
           => \/ /\ prev[id].status = StatusOpen
                 /\ tasks[id].status = StatusActive
                 /\ last.op = "claim" /\ last.args = <<id>>
              \/ /\ prev[id].status = StatusActive
                 /\ tasks[id].status = StatusOpen
                 /\ last.op = "release" /\ last.args = <<id>>
              \/ /\ prev[id].status = StatusActive
                 /\ tasks[id].status = StatusClosed
                 /\ last.op = "close" /\ last.args[1] = id
        /\ prev[id].status = StatusClosed
           => \/ id \in DOMAIN tasks /\ tasks[id].status = StatusClosed
              \/ id \notin DOMAIN tasks /\ last.op \in {"rm", "prune"}

\* a closed item has just been the target of claim, release or close
C6_Witness ==
    /\ last.op \in {"claim", "release", "close"}
    /\ last.args[1] \in DOMAIN prev
    /\ prev[last.args[1]].status = StatusClosed
    /\ last.err.kind = "InvalidStatus"

(***************************************************************************)
(* C7: an item has closed_at set exactly when it is closed, and            *)
(* close_reason set exactly when it is closed.                             *)
(***************************************************************************)
C7_ClosedFields ==
    \A id \in DOMAIN tasks :
        /\ tasks[id].closed_at # Nil <=> tasks[id].status = StatusClosed
        /\ tasks[id].close_reason # Nil <=> tasks[id].status = StatusClosed

\* an item has just been closed while another one is open
C7_Witness ==
    /\ last.op = "close" /\ last.err = NoErr
    /\ tasks[last.args[1]].closed_at # Nil
    /\ tasks[last.args[1]].close_reason # Nil
    /\ WithStatus(tasks, StatusOpen) # {}

(***************************************************************************)
(* C8: close of an item that is not active fails with InvalidStatus        *)
(* whatever the reason; close of an active item with an empty reason fails *)
(* with MissingReason; both leave the store as it was.  Otherwise the item *)
(* becomes closed, with the reason and a timestamp (a second that is not   *)
(* in the future) stored.                                                  *)
(***************************************************************************)
C8_Close ==
    \A id \in DOMAIN prev, reason \in Reasons :
        last.op = "close" /\ last.args = <<id, reason>>
        => IF prev[id].status # StatusActive
           THEN /\ last.err = InvalidStatusError(id, prev[id].status,
                                                 StatusActive)
                /\ tasks = prev
           ELSE IF reason = ""
           THEN /\ last.err = MissingReasonError
                /\ tasks = prev
           ELSE /\ last.err = NoErr
                /\ tasks[id].status = StatusClosed
                /\ tasks[id].close_reason = Ptr(reason)
                /\ \E sec \in 0..(now \div TicksPerSec) :
                        tasks[id].closed_at = Ptr(sec)

\* close with an empty reason of an item that is not active
C8_Witness ==
    /\ last.op = "close" /\ last.args[2] = ""
    /\ last.err.kind = "InvalidStatus"
    /\ prev[last.args[1]].status = StatusOpen

(***************************************************************************)
(* C9: release of an open or closed item fails with InvalidStatus          *)
(* (expected active) and changes nothing; release of an active item makes  *)
(* it open, and then no item of the store is active.                       *)
(***************************************************************************)
C9_Release ==
    \A id \in DOMAIN prev :
        last.op = "release" /\ last.args = <<id>>
        => IF prev[id].status # StatusActive
           THEN /\ last.err = InvalidStatusError(id, prev[id].status,
                                                 StatusActive)
                /\ tasks = prev
           ELSE /\ last.err = NoErr
                /\ tasks[id].status = StatusOpen
                /\ WithStatus(tasks, StatusActive) = {}

\* an item was released while other items are open and closed
C9_Witness ==
    /\ last.op = "release" /\ last.err = NoErr
    /\ prev[last.args[1]].status = StatusActive
    /\ tasks[last.args[1]].status = StatusOpen
    /\ WithStatus(tasks, StatusClosed) # {}
    /\ Cardinality(WithStatus(tasks, StatusOpen)) > 1

(***************************************************************************)
(* C10 as written: dep of an edge the item already lists reports           *)
(* "Dependency already exists", returns no error and changes nothing.      *)
(***************************************************************************)
C10_Original ==
    \A taskID \in DOMAIN prev, depID \in IDs :
        /\ last.op = "dep" /\ last.args = <<taskID, depID>>
        /\ Contains(prev[taskID].depends_on, depID)
        => /\ last.err = NoErr
           /\ last.msg = "Dependency already exists"
           /\ tasks = prev

(***************************************************************************)
(* C10 amended: dep of an edge the item already lists, to an item that is  *)
(* still in the store, reports "Dependency already exists", returns no     *)
(* error and changes nothing, so that a dep that succeeded can be repeated *)
(* without effect; when the listed item is no longer in the store, dep     *)
(* fails with TaskNotFound and changes nothing.                            *)
(***************************************************************************)
C10_Idempotent ==
    \A taskID \in DOMAIN prev, depID \in IDs :
        last.op = "dep" /\ last.args = <<taskID, depID>>
        => /\ Contains(prev[taskID].depends_on, depID)
              => /\ tasks = prev
                 /\ IF depID \in DOMAIN prev
                    THEN /\ last.err = NoErr
                         /\ last.msg = "Dependency already exists"
                    ELSE last.err = TaskNotFoundError(depID)
           /\ last.err = NoErr
              => depResult(tasks, taskID, depID) =
                    [err |-> NoErr, msg |-> "Dependency already exists",
                     store |-> tasks]

\* dep of an existing edge was reported as such
C10_Witness ==
    /\ last.op = "dep" /\ last.msg = "Dependency already exists"
    /\ Contains(prev[last.args[1]].depends_on, last.args[2])

(***************************************************************************)
(* C11: dep <from> <to> looks for the two items before it looks for a      *)
(* cycle: it fails with TaskNotFound{from} when from is not in the store,  *)
(* else with TaskNotFound{to} when to is not, else with                    *)
(* CycleDetected{from, to} when from can be reached from to, and passes    *)
(* the validation otherwise; when x lists y and both are in the store,     *)
(* dep y x fails with CycleDetected{y, x}; a failed dep changes nothing    *)
(* and a dep that passed changes at most the depends_on of from.           *)
(***************************************************************************)
C11_ValidateAddDep ==
    \A from, to \in IDs :
        last.op = "dep" /\ last.args = <<from, to>>
        => /\ last.err =
                IF from \notin DOMAIN prev THEN TaskNotFoundError(from)
                ELSE IF to \notin DOMAIN prev THEN TaskNotFoundError(to)
                ELSE IF from \in {to} \cup Descendants(prev, to)
                     THEN CycleError(from, to)
                     ELSE NoErr
           /\ /\ {from, to} \subseteq DOMAIN prev
              /\ Contains(prev[to].depends_on, from)
              => last.err = CycleError(from, to)
           /\ last.err # NoErr => tasks = prev
           /\ DOMAIN tasks = DOMAIN prev
           /\ \A x \in DOMAIN prev :
                IF x = from
                THEN [tasks[x] EXCEPT !.depends_on = <<>>] =
                     [prev[x] EXCEPT !.depends_on = <<>>]
                ELSE tasks[x] = prev[x]

\* dep y x was refused because x lists y
C11_Witness ==
    /\ last.op = "dep"
    /\ last.args[1] # last.args[2]
    /\ last.err = CycleError(last.args[1], last.args[2])
    /\ Contains(prev[last.args[2]].depends_on, last.args[1])
    /\ tasks = prev

(***************************************************************************)
(* C12: WouldCreateCycle(from, to) is true exactly when from is to or can  *)
(* be reached from to along the depends_on lists of the tasks that exist   *)
(* (an id without a task leads nowhere); when A lists B and B lists C,     *)
(* the answer is true for (C, A) and for (C, B) and false for (A, C).      *)
(***************************************************************************)
C12_WouldCreateCycle ==
    \A from, to \in IDs :
        last.op = "WouldCreateCycle" /\ last.args = <<from, to>>
        => /\ last.msg = (from \in {to} \cup Descendants(tasks, to))
           /\ \A A, B, C \in IDs :
                /\ {A, B} \subseteq DOMAIN tasks
                /\ Contains(tasks[A].depends_on, B)
                /\ Contains(tasks[B].depends_on, C)
                => /\ <<from, to>> \in {<<C, A>>, <<C, B>>} => last.msg = TRUE
                   /\ <<from, to>> = <<A, C>> => last.msg = FALSE

\* the search went from A over B to C, which has no file
C12_Witness ==
    /\ last.op = "WouldCreateCycle" /\ last.msg = TRUE
    /\ \E A, B, C \in IDs :
        /\ last.args = <<C, A>>
        /\ {A, B} \subseteq DOMAIN tasks /\ C \notin DOMAIN tasks
        /\ tasks[A].depends_on = <<B>>
        /\ tasks[B].depends_on = <<C>>

(***************************************************************************)
(* C13: no item lists itself in depends_on and none lists an identifier    *)
(* twice: dep a a is refused, and dep of an edge the item already lists    *)
(* appends nothing.                                                        *)
(***************************************************************************)
C13_DependsOnIsSet ==
    /\ \A id \in DOMAIN tasks :
        LET ds == tasks[id].depends_on
        IN  /\ ~Contains(ds, id)
            /\ \A i, j \in 1..Len(ds) : i # j => ds[i] # ds[j]
    /\ \A a, b \in IDs :
        last.op = "dep" /\ last.args = <<a, b>>
        => /\ a = b => last.err # NoErr /\ tasks = prev
           /\ a \in DOMAIN prev /\ Contains(prev[a].depends_on, b)
              => tasks = prev

\* dep a a was refused for an item that lists two others
C13_Witness ==
    /\ last.op = "dep"
    /\ last.args[1] = last.args[2]
    /\ last.err = CycleError(last.args[1], last.args[1])
    /\ Len(tasks[last.args[1]].depends_on) = 2

(***************************************************************************)
(* C14: IsBlocked(id) is true exactly when id has a file and one of the    *)
(* identifiers in its depends_on has a file whose status is open or        *)
(* active; identifiers without a file never block, and an id without a     *)
(* file is not blocked.                                                    *)
(***************************************************************************)
C14_IsBlocked ==
    \A id \in IDs :
        last.op = "IsBlocked" /\ last.args = <<id>>
        => /\ last.msg =
                (/\ id \in DOMAIN tasks
                 /\ \E d \in Range(tasks[id].depends_on) :
                        /\ d \in DOMAIN tasks
                        /\ tasks[d].status \in {StatusOpen, StatusActive})
           /\ id \notin DOMAIN tasks => last.msg = FALSE
           /\ /\ id \in DOMAIN tasks
              /\ \A d \in Range(tasks[id].depends_on) :
                    d \notin DOMAIN tasks \/ tasks[d].status = StatusClosed
              => last.msg = FALSE

\* an item that lists an id without a file and a closed item is not blocked
C14_Witness ==
    /\ last.op = "IsBlocked" /\ last.msg = FALSE
    /\ last.args[1] \in DOMAIN tasks
    /\ \E d, e \in Range(tasks[last.args[1]].depends_on) :
        /\ d \notin DOMAIN tasks
        /\ e \in DOMAIN tasks /\ tasks[e].status = StatusClosed

(***************************************************************************)
(* C15: BlockedBy(id) is depends_on of the item with the identifiers that  *)
(* have no file or a closed one left out and the others in their order,    *)
(* and it is non-empty exactly when IsBlocked(id) is true.                 *)
(***************************************************************************)
C15_BlockedBy ==
    \A id \in IDs :
        last.op = "BlockedBy" /\ last.args = <<id>>
        => /\ id \in DOMAIN tasks => last.msg = Unresolved(tasks, id)
           /\ (last.msg # <<>>) = IsBlocked(GraphOf(tasks), id)

\* of two dependencies, the second is the only blocker
C15_Witness ==
    /\ last.op = "BlockedBy"
    /\ last.args[1] \in DOMAIN tasks
    /\ Len(tasks[last.args[1]].depends_on) = 2
    /\ last.msg = <<tasks[last.args[1]].depends_on[2]>>

(***************************************************************************)
(* C16: Ready() returns the items that are open and not blocked, each      *)
(* once and no other, ordered by priority rank (critical, high, medium,    *)
(* low, then any other value) and, within one rank, the earlier created    *)
(* first; items of priority low, critical and high created in this order   *)
(* at increasing times come out as critical, high, low.                    *)
(***************************************************************************)
C16_RankOf(p) ==
    LET known == <<PriorityCritical, PriorityHigh, PriorityMedium,
                   PriorityLow>>
    IN  IF \E k \in 1..4 : known[k] = p
        THEN CHOOSE k \in 1..4 : known[k] = p
        ELSE 5

C16_Ready ==
    last.op = "Ready"
    => LET r == last.msg
           want == {id \in DOMAIN tasks :
                        /\ tasks[id].status = StatusOpen
                        /\ Unresolved(tasks, id) = <<>>}
       IN  /\ {r[i].id : i \in 1..Len(r)} = want
           /\ Len(r) = Cardinality(want)
           /\ \A i \in 1..Len(r) : r[i] = Load(tasks, r[i].id)
           /\ \A i, j \in 1..Len(r) :
                i < j
                => \/ C16_RankOf(r[i].priority) < C16_RankOf(r[j].priority)
                   \/ /\ C16_RankOf(r[i].priority) = C16_RankOf(r[j].priority)
                      /\ r[i].created_at <= r[j].created_at
           /\ \A x, y, z \in want :
                /\ want = {x, y, z}
                /\ tasks[x].priority = PriorityLow
                /\ tasks[y].priority = PriorityCritical
                /\ tasks[z].priority = PriorityHigh
                /\ tasks[x].created_at < tasks[y].created_at
                /\ tasks[y].created_at < tasks[z].created_at
                => <<r[1].id, r[2].id, r[3].id>> = <<y, z, x>>

\* low, critical and high, created in this order, came out by rank
C16_Witness ==
    /\ last.op = "Ready" /\ Len(last.msg) = 3
    /\ last.msg[1].priority = PriorityCritical
    /\ last.msg[2].priority = PriorityHigh
    /\ last.msg[3].priority = PriorityLow
    /\ last.msg[3].created_at < last.msg[1].created_at
    /\ last.msg[1].created_at < last.msg[2].created_at

(***************************************************************************)
(* C17 as written: of any two different items taskLess puts exactly one    *)
(* before the other, so that Ready() returns the same sequence whatever    *)
(* the order in which the map of the graph is walked.                      *)
(***************************************************************************)
C17_Original ==
    last.op = "Ready"
    => LET g == GraphOf(tasks)
       IN  /\ \A x, y \in DOMAIN g :
                x # y => (taskLess(g[x], g[y]) # taskLess(g[y], g[x]))
           /\ \A order \in MapOrders(DOMAIN g) : Ready(g, order) = last.msg

\* two walks of the same map gave Ready() two different answers
C17_Witness ==
    /\ last.op = "Ready"
    /\ \E order \in MapOrders(DOMAIN tasks) :
        Ready(GraphOf(tasks), order) # last.msg
    /\ \E x, y \in DOMAIN tasks :
        /\ x # y
        /\ tasks[x].priority = tasks[y].priority
        /\ tasks[x].created_at = tasks[y].created_at

(***************************************************************************)
(* C18: when rm <id> has succeeded, id has no file, no remaining item      *)
(* lists id, every depends_on is what it was without id, in the same       *)
(* order, and nothing else has changed; and rm takes id out of the other   *)
(* items before it deletes the file of id: between its two writes the file *)
(* is still there and no item lists id.                                    *)
(***************************************************************************)
C18_Remove ==
    /\ running # <<>> /\ running[1].pc = 2
       => /\ running[1].id \in DOMAIN tasks
          /\ \A x \in DOMAIN tasks :
                ~Contains(tasks[x].depends_on, running[1].id)
    /\ running = <<>> /\ last.op = "rm" /\ last.err = NoErr
       => LET id == last.args[1]
          IN  /\ DOMAIN tasks = DOMAIN prev \ {id}
              /\ \A x \in DOMAIN tasks :
                    /\ ~Contains(tasks[x].depends_on, id)
                    /\ tasks[x] =
                         [prev[x] EXCEPT !.depends_on =
                             SelectSeq(@, LAMBDA d : d # id)]
              /\ tasks = rmResult(prev, id).store

\* rm took id out of a list of two, whose other entry stayed
C18_Witness ==
    /\ running = <<>> /\ last.op = "rm" /\ last.err = NoErr
    /\ \E x \in DOMAIN tasks :
        /\ Len(prev[x].depends_on) = 2
        /\ prev[x].depends_on[1] = last.args[1]
        /\ tasks[x].depends_on = <<prev[x].depends_on[2]>>

(***************************************************************************)
(* C19: undep <id> <dep> on an item of any status that lists dep takes dep *)
(* out of its depends_on, whatever the graph and the statuses are, and     *)
(* leaves the other entries in their order and everything else as it was;  *)
(* when the item does not list dep, it reports "Dependency not found",     *)
(* returns no error and does not save the item.                            *)
(***************************************************************************)
C19_Undep ==
    \A id \in DOMAIN prev, depID \in IDs :
        last.op = "undep" /\ last.args = <<id, depID>>
        => /\ last.err = NoErr
           /\ IF Contains(prev[id].depends_on, depID)
              THEN /\ last.msg = ""
                   /\ tasks = [prev EXCEPT ![id].depends_on =
                                   SelectSeq(@, LAMBDA d : d # depID)]
              ELSE /\ last.msg = "Dependency not found"
                   /\ tasks = prev
                   /\ ~undepResult(prev, id, depID).saved

\* undep took the first of two entries out of the list of a closed item
C19_Witness ==
    /\ last.op = "undep" /\ last.err = NoErr /\ last.msg = ""
    /\ LET id == last.args[1]
       IN  /\ prev[id].status = StatusClosed
           /\ Len(prev[id].depends_on) = 2
           /\ prev[id].depends_on[1] = last.args[2]
           /\ tasks[id].depends_on = <<prev[id].depends_on[2]>>

(***************************************************************************)
(* C20: without a session file, Claim(s, source) writes one owned by s     *)
(* with drain_active false and returns (true, ""); with a session file,    *)
(* Claim by any session id, the owner's included, returns (false, owner)   *)
(* and leaves the file, its drain flag included, as it was.                *)
(***************************************************************************)
C20_FirstWriterWins ==
    \A s \in SessionIDs, source \in Sources :
        last.op = "Claim" /\ last.args = <<s, source>>
        => /\ last.err = NoErr
           /\ IF prevSession = Nil
              THEN /\ last.msg = <<TRUE, "">>
                   /\ session # Nil
                   /\ session[1].session_id = s
                   /\ session[1].source = source
                   /\ session[1].drain_active = FALSE
                   /\ session[1].drain_started_at = Nil
              ELSE /\ last.msg = <<FALSE, prevSession[1].session_id>>
                   /\ session = prevSession

\* the owner itself was turned away while drain mode was on
C20_Witness ==
    /\ last.op = "Claim"
    /\ session # Nil
    /\ last.args[1] = session[1].session_id
    /\ last.msg = <<FALSE, session[1].session_id>>
    /\ session[1].drain_active = TRUE

(***************************************************************************)
(* C21: Release(s) deletes the session file and returns true only when     *)
(* there is a file and s is its owner; when the owner is another session   *)
(* or there is no file it returns false and leaves the file as it was (so  *)
(* after Claim(session-1), Release(session-2) returns false and            *)
(* Release(session-1) returns true and the file is gone).                  *)
(***************************************************************************)
C21_Release ==
    \A s \in SessionIDs :
        last.op = "Release" /\ last.args = <<s>>
        => /\ last.err = NoErr
           /\ IF prevSession # Nil /\ prevSession[1].session_id = s
              THEN last.msg = <<TRUE>> /\ session = Nil
              ELSE last.msg = <<FALSE>> /\ session = prevSession

\* session-2 was turned away from the file of session-1
C21_Witness ==
    /\ last.op = "Release" /\ last.args = <<"session-2">>
    /\ last.msg = <<FALSE>>
    /\ session # Nil /\ session[1].session_id = "session-1"

(***************************************************************************)
(* C22: SetDrainActive(s, active) changes the session file only when s is  *)
(* its owner: a call by another session returns false and leaves the file  *)
(* as it was; a call by the owner returns true, sets drain_active to the   *)
(* argument and changes nothing but the two drain fields; and in every     *)
(* state drain_started_at is present exactly when drain_active is true.    *)
(***************************************************************************)
C22_SetDrainActive ==
    /\ session # Nil
       => (session[1].drain_started_at # Nil) = session[1].drain_active
    /\ \A s \in SessionIDs, active \in BOOLEAN :
        last.op = "SetDrainActive" /\ last.args = <<s, active>>
        => IF prevSession # Nil /\ prevSession[1].session_id = s
           THEN /\ last.msg = <<TRUE>> /\ last.err = NoErr
                /\ session # Nil
                /\ session[1].drain_active = active
                /\ [session[1] EXCEPT !.drain_active = FALSE,
                                       !.drain_started_at = Nil] =
                   [prevSession[1] EXCEPT !.drain_active = FALSE,
                                           !.drain_started_at = Nil]
           ELSE /\ last.msg = <<FALSE>>
                /\ session = prevSession

\* the owner turned drain mode off again
C22_Witness ==
    /\ last.op = "SetDrainActive" /\ last.msg = <<TRUE>>
    /\ last.args[2] = FALSE
    /\ prevSession # Nil /\ prevSession[1].drain_active = TRUE
    /\ session[1].drain_active = FALSE
    /\ session[1].drain_started_at = Nil

(***************************************************************************)
(* C23: the stop hook called with session id s answers "block" exactly     *)
(* when there is a session file owned by s, its drain_active is true and   *)
(* some item is active or open; in every other case it writes nothing,     *)
(* which lets the caller stop.  The hook changes no file.                  *)
(***************************************************************************)
C23_HookBlocks ==
    \A s \in SessionIDs :
        last.op = "session hook" /\ last.args = <<s>>
        => LET blocks == /\ session # Nil
                         /\ session[1].session_id = s
                         /\ session[1].drain_active
                         /\ WithStatus(tasks, StatusActive)
                                \cup WithStatus(tasks, StatusOpen) # {}
           IN  /\ blocks => last.msg # Nil /\ last.msg[1].decision = "block"
               /\ ~blocks => last.msg = Nil
               /\ tasks = prev /\ session = prevSession

\* the owner was blocked in drain mode by an open item next to a closed one
C23_Witness ==
    /\ last.op = "session hook" /\ last.msg # Nil
    /\ session # Nil /\ session[1].drain_active
    /\ session[1].session_id = last.args[1]
    /\ WithStatus(tasks, StatusOpen) # {}
    /\ WithStatus(tasks, StatusClosed) # {}

(***************************************************************************)
(* C24: when the stop hook blocks, it names the active item if there is    *)
(* one, however many items are open, and otherwise gives the number of     *)
(* items whose status is open, those that wait for a dependency included.  *)
(***************************************************************************)
C24_HookReport ==
    last.op = "session hook" /\ last.msg # Nil
    => LET active == WithStatus(tasks, StatusActive)
           open == WithStatus(tasks, StatusOpen)
       IN  IF active # {}
           THEN \E x \in active :
                   /\ active = {x}
                   /\ last.msg[1].reason = <<"Continue working on task", x>>
                   /\ last.msg[1].systemMessage = <<"Task", x, "Still active">>
           ELSE /\ last.msg[1].reason =
                      <<"There are", Cardinality(open), "open tasks remaining">>
                /\ last.msg[1].systemMessage =
                      <<Cardinality(open), "open tasks remaining">>

\* the hook counted two open items, one of which waits for the other
C24_Witness ==
    /\ last.op = "session hook" /\ last.msg # Nil
    /\ last.msg[1].systemMessage = <<2, "open tasks remaining">>
    /\ \E x \in WithStatus(tasks, StatusOpen) : Unresolved(tasks, x) # <<>>

(***************************************************************************)
(* C25 as written: when the owner runs the stop hook in drain mode and no  *)
(* item is active or open, the session file has drain_active false after   *)
(* the hook.                                                               *)
(***************************************************************************)
C25_Original ==
    /\ last.op = "session hook"
    /\ prevSession # Nil
    /\ prevSession[1].session_id = last.args[1]
    /\ prevSession[1].drain_active
    /\ WithStatus(prev, StatusActive) \cup WithStatus(prev, StatusOpen) = {}
    => /\ session # Nil
       /\ session[1].drain_active = FALSE

\* the hook let the owner stop, every item being closed, and drain mode is
\* still on
C25_Witness ==
    /\ last.op = "session hook" /\ last.msg = Nil
    /\ session # Nil
    /\ session[1].session_id = last.args[1]
    /\ session[1].drain_active
    /\ session = prevSession
    /\ WithStatus(tasks, StatusClosed) # {}
    /\ WithStatus(tasks, StatusActive) \cup WithStatus(tasks, StatusOpen) = {}

(***************************************************************************)
(* C29: drain release turns drain mode off only when the store has no      *)
(* active and no open item; with such an item left it answers success      *)
(* false, drain_active true and leaves session.json as it was; without a   *)
(* session file it answers success false and creates no file.              *)
(***************************************************************************)
C29_DrainRelease ==
    last.op = "drain release"
    => LET remaining == WithStatus(prev, StatusActive)
                            \cup WithStatus(prev, StatusOpen)
           resp == last.msg.resp
       IN  /\ tasks = prev
           /\ prevSession = Nil
              => /\ resp.Success = FALSE
                 /\ session = Nil
           /\ prevSession # Nil /\ remaining # {}
              => /\ resp.Success = FALSE
                 /\ resp.DrainActive = TRUE
                 /\ last.msg.exit = 1
                 /\ session = prevSession
           /\ prevSession # Nil /\ remaining = {}
              => /\ resp.Success = TRUE
                 /\ resp.DrainActive = FALSE
                 /\ session # Nil
                 /\ session[1].drain_active = FALSE
                 /\ session[1].session_id = prevSession[1].session_id
           /\ (session # prevSession) => remaining = {}

\* drain release was refused in drain mode because an item is still open
C29_Witness ==
    /\ last.op = "drain release"
    /\ last.msg.resp.Success = FALSE
    /\ last.msg.resp.DrainActive = TRUE
    /\ session # Nil
    /\ session[1].drain_active
    /\ session = prevSession
    /\ WithStatus(tasks, StatusOpen) # {}

(***************************************************************************)
(* C30: a session record in drain mode stays in drain mode across every    *)
(* command that starts with an open or active item in the store, unless    *)
(* the command removes the record (session release by the owner, session   *)
(* prune, init --force); drain claim on an existing record puts it in      *)
(* drain mode; and while the record is in drain mode and an item is open   *)
(* or active, every stop hook called by the owner blocks.  By induction    *)
(* over the commands: from a successful drain claim up to the first state  *)
(* without an open or active item, whatever the commands run in between.   *)
(***************************************************************************)
C30_DrainHolds ==
    LET sessionOps == {"session claim", "session release", "session prune",
                       "session hook", "drain claim", "drain release",
                       "init --force"}
        before == IF last.op \in sessionOps THEN prevSession ELSE session
        remaining(store) == WithStatus(store, StatusActive)
                                \cup WithStatus(store, StatusOpen)
        removes == \/ last.op \in {"session prune", "init --force"}
                   \/ /\ last.op = "session release"
                      /\ before # Nil
                      /\ last.args = <<before[1].session_id>>
    IN  /\ last.op = "drain claim" /\ last.msg.resp.Success
           => /\ session # Nil
              /\ session[1].drain_active
        /\ (/\ before # Nil
            /\ before[1].drain_active
            /\ remaining(prev) # {}
            /\ ~removes)
           => /\ session # Nil
              /\ session[1].drain_active
              /\ session[1].session_id = before[1].session_id
        /\ (/\ last.op = "session hook"
            /\ session # Nil
            /\ session[1].drain_active
            /\ last.args = <<session[1].session_id>>
            /\ remaining(tasks) # {})
           => /\ last.msg # Nil
              /\ last.msg[1].decision = "block"

\* time has passed since drain claim, an item is active, the owner's stop
\* hook blocks and drain mode is still on
C30_Witness ==
    /\ last.op = "session hook" /\ last.msg # Nil
    /\ session # Nil
    /\ session[1].drain_active
    /\ session[1].session_id = last.args[1]
    /\ session[1].drain_started_at # Nil
    /\ session[1].drain_started_at[1] < now
    /\ WithStatus(tasks, StatusActive) # {}

\* the ids of the tasks of a list, in its order
IDsOf(list) == [i \in 1..Len(list) |-> list[i].id]

\* the ids of the tasks of the store whose depends_on names id
DependentSet(store, id) ==
    {x \in DOMAIN store : Contains(store[x].depends_on, id)}

\* the nodes of a forest, at any depth
RECURSIVE NodesOf(_)
NodesOf(forest) ==
    UNION {{forest[i]} \cup NodesOf(forest[i].Children) :
           i \in 1..Len(forest)}

(***************************************************************************)
(* C26 as written: Dependents(id) is the list of the ids of the tasks      *)
(* whose depends_on contains id, each once, in the order of the task list  *)
(* the graph was built from.                                               *)
(***************************************************************************)
C26_Original ==
    last.op = "Dependents"
    => last.msg = IDsOf(SelectSeq(List(tasks, NoFilter),
                     LAMBDA t : Contains(t.depends_on, last.args[1])))

\* Dependents returned the two dependents of a task, the later one of the
\* task list first
C26_Witness ==
    /\ last.op = "Dependents"
    /\ Len(last.msg) = 2
    /\ {last.msg[1], last.msg[2]} = DependentSet(tasks, last.args[1])
    /\ last.msg[1] # last.msg[2]
    /\ LET snapshot == IDsOf(List(tasks, NoFilter))
       IN  \E i, j \in 1..Len(snapshot) :
              /\ i < j
              /\ snapshot[i] = last.msg[2]
              /\ snapshot[j] = last.msg[1]

C28_Original ==
    last.op = "BuildTree"
    => {n.Task.id : n \in NodesOf(last.msg)} = DOMAIN tasks

\* BuildTree returned its forest and an open task that another open task
\* depends on is no node of it
C28_Witness ==
    /\ last.op = "BuildTree"
    /\ \E id \in DOMAIN tasks :
          /\ tasks[id].status = StatusOpen
          /\ \E x \in DependentSet(tasks, id) : tasks[x].status = StatusOpen
          /\ id \notin {n.Task.id : n \in NodesOf(last.msg)}

\* the items still to be worked on
Remaining(store) ==
    WithStatus(store, StatusActive) \cup WithStatus(store, StatusOpen)

\* what is left to do: a claim takes one from an open item, a close one
\* from an active item
Measure(store) ==
    2 * Cardinality(WithStatus(store, StatusOpen))
        + Cardinality(WithStatus(store, StatusActive))

(***************************************************************************)
(* C31: whenever no item is active and some item is open, Ready returns    *)
(* an item, whatever the walk of the map.  Hence the way to an empty       *)
(* backlog is never closed: while an item is open or active some claim or  *)
(* some close succeeds, and every successful claim or close lowers         *)
(* Measure, which is zero exactly when nothing is open or active.          *)
(***************************************************************************)
C31_NoDeadlock ==
    /\ WithStatus(tasks, StatusActive) = {} /\ WithStatus(tasks, StatusOpen) # {}
       => \A order \in MapOrders(DOMAIN tasks) :
              Ready(GraphOf(tasks), order) # <<>>
    /\ Remaining(tasks) # {}
       => \E id \in DOMAIN tasks :
              \/ claimResult(tasks, id).err = NoErr
              \/ closeResult(tasks, id, "done", now).err = NoErr
    /\ last.op \in {"claim", "close"} /\ last.err = NoErr
       => Measure(tasks) < Measure(prev)

\* no item is active, an open item waits for another open item, and a
\* dependency was just refused because it would close a cycle
C31_Witness ==
    /\ WithStatus(tasks, StatusActive) = {}
    /\ \E x \in WithStatus(tasks, StatusOpen) : IsBlocked(GraphOf(tasks), x)
    /\ last.op = "dep"
    /\ last.err # NoErr
    /\ last.err.kind = "CycleDetected"

(***************************************************************************)
(* C32: claim of an existing item succeeds exactly when, in the store the  *)
(* command read, no item is active and the item is one of those Ready      *)
(* returns (whatever the walk of the map).                                 *)
(***************************************************************************)
C32_ClaimIffReady ==
    last.op = "claim" /\ last.args[1] \in DOMAIN prev
    => \A order \in MapOrders(DOMAIN prev) :
           (last.err = NoErr)
           <=> /\ WithStatus(prev, StatusActive) = {}
               /\ last.args[1] \in Range(IDsOf(Ready(GraphOf(prev), order)))

\* a claim refused on an open item only because it waits for an open item,
\* while Ready offers another item
C32_Witness ==
    /\ last.op = "claim"
    /\ last.err.kind = "Blocked"
    /\ WithStatus(prev, StatusActive) = {}
    /\ prev[last.args[1]].status = StatusOpen
    /\ \E x \in DOMAIN prev \ {last.args[1]} : ~IsBlocked(GraphOf(prev), x)
                                              /\ prev[x].status = StatusOpen

(***************************************************************************)
(* C33 as written: the active item has no blocking dependency, every id of *)
(* its depends_on that has a file names a closed item.                     *)
(***************************************************************************)
C33_Original ==
    \A x \in WithStatus(tasks, StatusActive) : ~IsBlocked(GraphOf(tasks), x)

\* C33 amended: a successful claim leaves the claimed item without blocking
\* dependency, and an active item comes to have one only by a dep command
\* on the active item itself or by an add command that creates an item
\* under an id the active item still lists.
C33_UnblockedWhenClaimed ==
    /\ last.op = "claim" /\ last.err = NoErr
       => /\ tasks[last.args[1]].status = StatusActive
          /\ ~IsBlocked(GraphOf(tasks), last.args[1])
    /\ \A x \in WithStatus(tasks, StatusActive) :
          /\ IsBlocked(GraphOf(tasks), x)
          /\ ~(/\ x \in WithStatus(prev, StatusActive)
               /\ IsBlocked(GraphOf(prev), x))
          => \/ /\ last.op = "dep"
                /\ last.err = NoErr
                /\ last.args[1] = x
                /\ tasks[last.args[2]].status # StatusClosed
             \/ /\ last.op = "add"
                /\ last.err = NoErr
                /\ Contains(tasks[x].depends_on, last.msg)

\* dep has just made the active item wait for an open item
C33_Witness ==
    /\ last.op = "dep" /\ last.err = NoErr
    /\ tasks[last.args[1]].status = StatusActive
    /\ ~IsBlocked(GraphOf(prev), last.args[1])
    /\ IsBlocked(GraphOf(tasks), last.args[1])
    /\ tasks[last.args[2]].status = StatusOpen

(***************************************************************************)
(* C34: a claim, release, close, dep, undep or rm command that ends in an  *)
(* error leaves every file of the store as it was, and the error is one    *)
(* of those the command can raise; undep and rm of an id without a file    *)
(* fail with TaskNotFound (rm strips no reference to the id).              *)
(***************************************************************************)
C34_ErrorsWriteNothing ==
    LET kinds == [claim |-> {"TaskNotFound", "InvalidStatus",
                             "ActiveTaskExists", "Blocked"},
                  release |-> {"TaskNotFound", "InvalidStatus"},
                  close |-> {"TaskNotFound", "InvalidStatus", "MissingReason"},
                  dep |-> {"TaskNotFound", "CycleDetected"},
                  undep |-> {"TaskNotFound"},
                  rm |-> {"TaskNotFound"}]
    IN  last.op \in DOMAIN kinds
        => /\ last.err # NoErr
              => /\ tasks = prev
                 /\ last.err.kind \in kinds[last.op]
           /\ last.op \in {"undep", "rm"} /\ last.args[1] \notin DOMAIN prev
              => /\ last.err = TaskNotFoundError(last.args[1])
                 /\ tasks = prev

\* rm of an id that has no file any more failed, and the item that lists
\* the id still lists it
C34_Witness ==
    /\ last.op = "rm"
    /\ last.err.kind = "TaskNotFound"
    /\ \E x \in DOMAIN tasks : Contains(tasks[x].depends_on, last.args[1])
    /\ tasks = prev

(***************************************************************************)
(* C35: a successful claim, release or close of x changes the status of x  *)
(* and, for close, its closed_at and close_reason, and nothing else: the   *)
(* other fields of x (id, created_at, priority, depends_on among them) and *)
(* every other item are as they were.                                      *)
(***************************************************************************)
C35_Frame ==
    last.op \in {"claim", "release", "close"} /\ last.err = NoErr
    => LET x == last.args[1]
           newStatus == CASE last.op = "claim" -> StatusActive
                          [] last.op = "release" -> StatusOpen
                          [] last.op = "close" -> StatusClosed
       IN  /\ DOMAIN tasks = DOMAIN prev
           /\ \A y \in DOMAIN prev \ {x} : tasks[y] = prev[y]
           /\ tasks[x].status = newStatus
           /\ tasks[x].status # prev[x].status
           /\ tasks[x].id = prev[x].id
           /\ tasks[x].created_at = prev[x].created_at
           /\ tasks[x].priority = prev[x].priority
           /\ tasks[x].depends_on = prev[x].depends_on
           /\ tasks[x].title = prev[x].title
           /\ last.op # "close"
              => /\ tasks[x].closed_at = prev[x].closed_at
                 /\ tasks[x].close_reason = prev[x].close_reason

\* an item that another open item waits for was closed: the other item
\* still lists it
C35_Witness ==
    /\ last.op = "close" /\ last.err = NoErr
    /\ tasks[last.args[1]].closed_at # Nil
    /\ tasks[last.args[1]].depends_on # <<>>
    /\ \E y \in WithStatus(tasks, StatusOpen) :
          Contains(tasks[y].depends_on, last.args[1])

\* the ids of the tasks Ready returns
ReadySet(store, order) == Range(IDsOf(Ready(GraphOf(store), order)))

(***************************************************************************)
(* C36: prune deletes the closed items and no other, and leaves every      *)
(* remaining item as it was, the ids of pruned items in depends_on         *)
(* included; every remaining item is blocked after prune exactly if it was *)
(* before, and is returned by Ready after prune exactly if it was before.  *)
(***************************************************************************)
C36_Prune ==
    last.op = "prune"
    => /\ DOMAIN tasks = DOMAIN prev \ WithStatus(prev, StatusClosed)
       /\ \A x \in DOMAIN tasks :
             /\ tasks[x] = prev[x]
             /\ IsBlocked(GraphOf(tasks), x) = IsBlocked(GraphOf(prev), x)
             /\ \A before \in MapOrders(DOMAIN prev),
                   after \in MapOrders(DOMAIN tasks) :
                    x \in ReadySet(tasks, after) <=> x \in ReadySet(prev, before)

\* prune removed a closed item that an open item, ready before and after,
\* still lists
C36_Witness ==
    /\ last.op = "prune"
    /\ \E x \in WithStatus(tasks, StatusOpen) :
          \E c \in WithStatus(prev, StatusClosed) :
             /\ Contains(tasks[x].depends_on, c)
             /\ c \notin DOMAIN tasks
             /\ ~IsBlocked(GraphOf(tasks), x)

\* a call of the walk specification is in progress
InCall(op) == running # <<>> /\ running[1].op = op

\* the number of ids the depends_on lists of the tasks S mention
RECURSIVE MentionsOf(_, _)
MentionsOf(store, S) ==
    IF S = {} THEN 0
    ELSE LET x == CHOOSE y \in S : TRUE
         IN  Len(store[x].depends_on) + MentionsOf(store, S \ {x})

\* no element twice
Distinct(s) == \A i, j \in 1..Len(s) : i # j => s[i] # s[j]

(***************************************************************************)
(* C37: on every snapshot, cycles and self-references included, a call of  *)
(* WouldCreateCycle and a call of BuildTree return: the iterations of the  *)
(* first and the calls of buildNode of the second never exceed a number    *)
(* fixed by the snapshot, and each step of a call in progress is an        *)
(* iteration, a call or a return.  WouldCreateCycle appends the depends_on *)
(* of an id to its queue at most once, no task is twice among the calls of *)
(* buildNode in progress, and what the two calls return is what the        *)
(* recursive definitions give.                                             *)
(***************************************************************************)
C37_Terminates ==
    LET mentions == MentionsOf(tasks, DOMAIN tasks)
        size == Cardinality(DOMAIN tasks)
    IN  /\ InCall("WouldCreateCycle")
           => /\ Distinct(running[1].expanded)
              /\ running[1].iterations + Len(running[1].queue) <= 1 + mentions
        /\ last.op = "WouldCreateCycle"
           => /\ Distinct(last.msg.expanded)
              /\ last.msg.iterations <= 1 + mentions
              /\ last.msg.result = WouldCreateCycle(GraphOf(tasks),
                                                    last.args[1], last.args[2])
        /\ InCall("BuildTree")
           => /\ Distinct([i \in 1..Len(running[1].stack) |->
                              running[1].stack[i].t.id])
              /\ Len(running[1].calls) <= size * (1 + mentions)
        /\ last.op = "BuildTree"
           => /\ Len(last.msg.calls) <= size * (1 + mentions)
              /\ last.msg.result = BuildTree(GraphOf(tasks),
                                             last.args[1], last.args[2])

\* WouldCreateCycle returned false on a snapshot where an item depends on
\* itself and two others depend on each other, all three expanded
C37_Witness ==
    /\ last.op = "WouldCreateCycle"
    /\ last.msg.result = FALSE
    /\ Len(last.msg.expanded) >= 2
    /\ \E x \in DOMAIN tasks : Contains(tasks[x].depends_on, x)
    /\ \E x \in DOMAIN tasks : x \in Descendants(tasks, x)

\* the positions in running of the finished commands of one kind
Done(op) ==
    {i \in 1..Len(running) : running[i].op = op /\ running[i].pc = "done"}

(***************************************************************************)
(* C38: session claim looks for the record and then creates it, in two     *)
(* steps.  A claim that found a record is refused and names its owner.     *)
(* Two claims with different session ids that both found no record are     *)
(* both granted, and the record then holds the id of the claim that wrote  *)
(* last, and nothing of the other.                                         *)
(***************************************************************************)
C38_ClaimRace ==
    /\ \A i \in Done("session claim") :
          IF running[i].file = Nil
          THEN /\ running[i].msg.claimed
               /\ running[i].at.write > running[i].at.read
          ELSE /\ ~running[i].msg.claimed
               /\ running[i].msg.owner = running[i].file[1].session_id
               /\ running[i].at.write = 0
    /\ \A i, j \in Done("session claim") :
          /\ running[i].args[1] # running[j].args[1]
          /\ running[i].file = Nil
          /\ running[j].file = Nil
          /\ running[i].at.write < running[j].at.write
          /\ \A k \in Done("session claim") :
                running[k].at.write <= running[j].at.write
          => /\ running[i].msg.claimed
             /\ running[j].msg.claimed
             /\ session # Nil
             /\ session[1].session_id = running[j].args[1]
             /\ session[1].session_id # running[i].args[1]

\* both agents were granted the session, each having looked for the record
\* before the other wrote it
C38_Witness ==
    \E i, j \in Done("session claim") :
        /\ running[i].args[1] # running[j].args[1]
        /\ running[i].msg.claimed
        /\ running[j].msg.claimed
        /\ running[i].at.read < running[j].at.write
        /\ running[j].at.read < running[i].at.write
        /\ session # Nil
        /\ session[1].session_id = running[j].args[1]

\* the last step of a command so far
LastStep(p) ==
    IF p.at.write > 0 THEN p.at.write
    ELSE IF p.at.read > 0 THEN p.at.read ELSE p.at.start

\* two commands overlap: the one started first had not ended when the
\* other started
Overlap(i, j) ==
    /\ running[i].at.start < running[j].at.start
    /\ \/ running[i].pc # "done"
       \/ LastStep(running[i]) > running[j].at.start

(***************************************************************************)
(* C39: bits claim reads and then writes, and nothing locks the store      *)
(* between the two.  Two claims of different items, each listing the store *)
(* before the other saves and each finding its item ready and no item      *)
(* active, both succeed, and the two items are active together.  When no   *)
(* two claims overlap at most one item is active.                          *)
(***************************************************************************)
C39_ClaimRace ==
    /\ \A i, j \in Done("claim") :
          LET p == running[i]
              q == running[j]
              Passed(c) == /\ c.t # Nil
                          /\ c.at.read > 0
                          /\ FindActive(c.list) = Nil
                          /\ ~IsBlocked(NewGraph(c.list), c.args[1])
          IN  /\ p.args[1] # q.args[1]
              /\ Passed(p)
              /\ Passed(q)
              /\ q.at.write = 0 \/ p.at.read < q.at.write
              /\ p.at.write = 0 \/ q.at.read < p.at.write
              => /\ p.err = NoErr
                 /\ q.err = NoErr
                 /\ tasks[p.args[1]].status = StatusActive
                 /\ tasks[q.args[1]].status = StatusActive
    /\ (\A i, j \in 1..Len(running) :
            running[i].op = "claim" /\ running[j].op = "claim"
            => ~Overlap(i, j))
       => Cardinality(WithStatus(tasks, StatusActive)) <= 1

\* two items are active: each agent listed the tasks before the other
\* saved its claim
C39_Witness ==
    \E i, j \in Done("claim") :
        /\ running[i].by # running[j].by
        /\ running[i].args[1] # running[j].args[1]
        /\ running[i].err = NoErr
        /\ running[j].err = NoErr
        /\ running[i].at.read < running[j].at.write
        /\ running[j].at.read < running[i].at.write
        /\ tasks[running[i].args[1]].status = StatusActive
        /\ tasks[running[j].args[1]].status = StatusActive

====
